---- MODULE Spec2Model ----
(***************************************************************************)
(* The comment scanners of the Join-Project maintenance scripts:           *)
(*   remove_inline_comments  (src/join/remove_inline_comments.py)          *)
(*   find_inline_comments    (src/join/scan_remaining_comments.py)         *)
(*   clean_file_comments     (src/join/remove_comments.py)                 *)
(* A line is a sequence of one-character strings.  Indices are 0-based as  *)
(* in the Python source; -1 means "not found".                             *)
(***************************************************************************)
EXTENDS Integers, Sequences, FiniteSets, TLC

\* ------------------------------------------------------------------------
\* Bounds of the model
\* ------------------------------------------------------------------------
\* longest line of LineSet, in tokens of Tokens
MaxTok == 3
\* longest line of ScanLines, in tokens of ScanTokens
MaxScanTok == 7
\* longest text of a whole file, in tokens of FileTokens
MaxFileTok == 4
\* the runs of a tool over one file
MaxRuns == 2
\* longest file given to clean_file_comments, in lines of CleanLines
MaxCleanLines == 4
\* longest file of doc comments and declarations, in lines of DocLines
MaxDocLines == 4
\* longest file of declaration lines, in lines of DeclLines
MaxDeclLines == 2
\* longest file of methods, in lines of MethodLines
MaxMethodLines == 4

\* lines of a file whose scan is followed to its end
MaxLiveLines == 3
\* longest file given to extract_methods_from_ts_file, in lines of ExtractLines
MaxExtractLines == 4

\* ------------------------------------------------------------------------
\* Python string primitives on sequences of characters
\* ------------------------------------------------------------------------
None == "None"

IsSpace(c) == c \in {" ", "\t", "\n"}

\* the backtick character (a string literal of the module cannot hold it)
Backtick == "backtick"

IsQuote(c) == c \in {"\"", "'", Backtick}

\* s[i]
At(s, i) == s[i + 1]

\* s[a:b]
Slice(s, a, b) == SubSeq(s, a + 1, b)

\* s[i:i+len(p)] == p
MatchAt(s, p, i) == i >= 0 /\ i + Len(p) <= Len(s) /\ SubSeq(s, i + 1, i + Len(p)) = p

\* s.find(p)
Find(s, p) ==
  IF \E i \in 0..(Len(s) - Len(p)) : MatchAt(s, p, i)
  THEN CHOOSE i \in 0..(Len(s) - Len(p)) :
         MatchAt(s, p, i) /\ \A j \in 0..(i - 1) : ~MatchAt(s, p, j)
  ELSE -1

\* s.rfind(p)
RFind(s, p) ==
  IF \E i \in 0..(Len(s) - Len(p)) : MatchAt(s, p, i)
  THEN CHOOSE i \in 0..(Len(s) - Len(p)) :
         MatchAt(s, p, i) /\ \A j \in (i + 1)..(Len(s) - Len(p)) : ~MatchAt(s, p, j)
  ELSE -1

\* p in s
Contains(s, p) == Find(s, p) >= 0

\* s.startswith(p)
StartsWith(s, p) == MatchAt(s, p, 0)

\* s.endswith(p)
EndsWith(s, p) == MatchAt(s, p, Len(s) - Len(p))

\* s.rstrip()
RStrip(s) ==
  LET keep == {k \in 1..Len(s) : ~IsSpace(s[k])}
  IN IF keep = {} THEN <<>>
     ELSE SubSeq(s, 1, CHOOSE k \in keep : \A m \in keep : m <= k)

\* s.lstrip()
LStrip(s) ==
  LET keep == {k \in 1..Len(s) : ~IsSpace(s[k])}
  IN IF keep = {} THEN <<>>
     ELSE SubSeq(s, CHOOSE k \in keep : \A m \in keep : k <= m, Len(s))

\* s.strip()
Strip(s) == LStrip(RStrip(s))

\* s.split(sep)[0]
SplitFirst(s, sep) == IF Find(s, sep) < 0 THEN s ELSE Slice(s, 0, Find(s, sep))

\* s.split(sep)[-1]   (the separators used, /* and */, cannot overlap themselves)
SplitLast(s, sep) ==
  IF RFind(s, sep) < 0 THEN s ELSE Slice(s, RFind(s, sep) + Len(sep), Len(s))

\* the markers
LineMark == <<"/", "/">>
BlockOpen == <<"/", "*">>
BlockClose == <<"*", "/">>
DocOpen == <<"/", "*", "*">>

\* ------------------------------------------------------------------------
\* The character scan for // outside strings
\*   remove_inline_comments.py 74-95, scan_remaining_comments.py 67-88
\* ------------------------------------------------------------------------
\* one iteration of the while loop at index i; a found comment_index is the break
ScanChar(line, i, st) ==
  LET char == At(line, i) IN
  IF st.comment_index >= 0 THEN st
  ELSE IF ~st.in_string /\ IsQuote(char)
    THEN [st EXCEPT !.in_string = TRUE, !.quote_char = char]
  ELSE IF st.in_string /\ char = st.quote_char /\ (i = 0 \/ At(line, i - 1) # "\\")
    THEN [st EXCEPT !.in_string = FALSE, !.quote_char = None]
  ELSE IF ~st.in_string /\ i < Len(line) - 1 /\ Slice(line, i, i + 2) = LineMark
    THEN [st EXCEPT !.comment_index = i]
  ELSE st

RECURSIVE ScanState(_, _)
\* the loop's variables after k iterations (or at the break, if it came earlier)
ScanState(line, k) ==
  IF k = 0 THEN [in_string |-> FALSE, quote_char |-> None, comment_index |-> -1]
  ELSE ScanChar(line, k - 1, ScanState(line, k - 1))

\* comment_index when the loop has ended
CommentIndex(line) == ScanState(line, Len(line)).comment_index

\* ------------------------------------------------------------------------
\* remove_inline_comments: the body of `for line in lines`
\* ------------------------------------------------------------------------
\* which `continue` (or the fall-through) handles the line
RicBranch(in_jsdoc, in_multiline_comment, line) ==
  IF StartsWith(Strip(line), DocOpen) THEN "jsdoc_start"
  ELSE IF in_jsdoc /\ (EndsWith(Strip(line), BlockClose) \/ Strip(line) = BlockClose)
    THEN "jsdoc_end"
  ELSE IF in_jsdoc THEN "jsdoc_body"
  ELSE IF Contains(line, BlockOpen) /\ ~StartsWith(Strip(line), DocOpen)
    THEN "multiline_open"
  ELSE IF in_multiline_comment THEN "multiline_skip"
  ELSE "code"

\* line 44-51: the line with the block comment cut out
CutBlock(line) ==
  LET before_comment == SplitFirst(line, BlockOpen)
  IN IF Contains(line, BlockClose)
     THEN before_comment \o SplitLast(line, BlockClose)
     ELSE before_comment

\* line 97-98: the line with the trailing // comment cut off
CutLineComment(line, comment_index) == RStrip(Slice(line, 0, comment_index))

\* the whole loop body. tail_nonblank: len(modified_lines) > 0 and modified_lines[-1].strip()
\* Result: the flags, the final value of `line`, the lines appended to
\* modified_lines, the increase of changes_made, comment_index (-1 when not scanned)
RicLine(in_jsdoc, in_multiline_comment, tail_nonblank, original_line) ==
  LET branch == RicBranch(in_jsdoc, in_multiline_comment, original_line)
      base == [branch |-> branch, in_jsdoc |-> in_jsdoc,
               in_multiline_comment |-> in_multiline_comment,
               line |-> original_line, appended |-> <<original_line>>,
               changes |-> 0, comment_index |-> -1]
  IN
  CASE branch = "jsdoc_start" -> [base EXCEPT !.in_jsdoc = TRUE]
    [] branch = "jsdoc_end" -> [base EXCEPT !.in_jsdoc = FALSE]
    [] branch = "jsdoc_body" -> base
    [] branch = "multiline_open" ->
         LET line == CutBlock(original_line) IN
         [base EXCEPT !.in_multiline_comment = ~Contains(original_line, BlockClose),
                      !.line = line,
                      !.appended = IF Strip(line) # <<>> THEN <<RStrip(line)>> ELSE <<>>,
                      !.changes = IF original_line # RStrip(line) THEN 1 ELSE 0]
    [] branch = "multiline_skip" ->
         LET after_comment == SplitLast(original_line, BlockClose) IN
         IF Contains(original_line, BlockClose)
         THEN [base EXCEPT !.in_multiline_comment = FALSE,
                           !.appended = IF Strip(after_comment) # <<>>
                                        THEN <<RStrip(after_comment)>> ELSE <<>>,
                           !.changes = 1]
         ELSE [base EXCEPT !.appended = <<>>, !.changes = 1]
    [] OTHER ->
         LET comment_index == IF Contains(original_line, LineMark)
                              THEN CommentIndex(original_line) ELSE -1
             line == IF comment_index >= 0
                     THEN CutLineComment(original_line, comment_index)
                     ELSE original_line
             c1 == IF comment_index >= 0 /\ Strip(original_line) # Strip(line) THEN 1 ELSE 0
             keep == Strip(line) # <<>> \/ tail_nonblank
             c2 == IF ~keep /\ Strip(original_line) # <<>> /\ Strip(line) = <<>> THEN 1 ELSE 0
         IN [base EXCEPT !.line = line,
                         !.appended = IF keep THEN <<line>> ELSE <<>>,
                         !.changes = c1 + c2,
                         !.comment_index = comment_index]

\* ------------------------------------------------------------------------
\* find_inline_comments: the body of `for i, line in enumerate(lines)`
\* ------------------------------------------------------------------------
FicBranch(in_jsdoc, in_multiline_comment, line) ==
  IF StartsWith(Strip(line), DocOpen) THEN "jsdoc_start"
  ELSE IF in_jsdoc /\ (EndsWith(Strip(line), BlockClose) \/ Strip(line) = BlockClose)
    THEN "jsdoc_end"
  ELSE IF in_jsdoc \/ StartsWith(Strip(line), <<"*">>) THEN "jsdoc_skip"
  ELSE IF Contains(line, BlockOpen) /\ ~StartsWith(Strip(line), DocOpen)
    THEN "multiline_open"
  ELSE IF in_multiline_comment THEN "multiline_skip"
  ELSE "code"

\* comment_content sliced one character late: line[comment_index+1:]
CommentContentLate(line, comment_index) ==
  Strip(Slice(line, comment_index + 1, Len(line)))

\* line 91: comment_content
CommentContent(line, comment_index) == Strip(Slice(line, comment_index, Len(line)))

\* line 92: code_before
CodeBefore(line, comment_index) == Strip(Slice(line, 0, comment_index))

\* the whole loop body. Result: the flags, the records appended to
\* inline_comments (without their line number), comment_index (-1 when not scanned)
FicLine(in_jsdoc, in_multiline_comment, line) ==
  LET branch == FicBranch(in_jsdoc, in_multiline_comment, line)
      base == [branch |-> branch, in_jsdoc |-> in_jsdoc,
               in_multiline_comment |-> in_multiline_comment,
               found |-> <<>>, comment_index |-> -1]
  IN
  CASE branch = "jsdoc_start" -> [base EXCEPT !.in_jsdoc = TRUE]
    [] branch = "jsdoc_end" -> [base EXCEPT !.in_jsdoc = FALSE]
    [] branch = "jsdoc_skip" -> base
    [] branch = "multiline_open" ->
         [base EXCEPT !.in_multiline_comment = ~Contains(line, BlockClose),
                      !.found = <<[type |-> "multiline_start", content |-> Strip(line)]>>]
    [] branch = "multiline_skip" ->
         IF Contains(line, BlockClose)
         THEN [base EXCEPT !.in_multiline_comment = FALSE,
                           !.found = <<[type |-> "multiline_end", content |-> Strip(line)]>>]
         ELSE [base EXCEPT
                 !.found = <<[type |-> "multiline_content", content |-> Strip(line)]>>]
    [] OTHER ->
         LET comment_index == IF Contains(line, LineMark) THEN CommentIndex(line) ELSE -1
         IN IF comment_index >= 0
            THEN [base EXCEPT !.comment_index = comment_index,
                              !.found = <<[type |-> "single_line",
                                           content |-> CommentContent(line, comment_index),
                                           code_before |-> CodeBefore(line, comment_index)]>>]
            ELSE base

\* ------------------------------------------------------------------------
\* clean_file_comments and the line classifiers of remove_comments.py
\* ------------------------------------------------------------------------
Upper == {"A", "B", "C", "D", "E", "F", "G", "H", "I", "J", "K", "L", "M",
          "N", "O", "P", "Q", "R", "S", "T", "U", "V", "W", "X", "Y", "Z"}

Lower == {"a", "b", "c", "d", "e", "f", "g", "h", "i", "j", "k", "l", "m",
          "n", "o", "p", "q", "r", "s", "t", "u", "v", "w", "x", "y", "z"}

Digit == {"0", "1", "2", "3", "4", "5", "6", "7", "8", "9"}

\* \w
IsWord(c) == c \in Upper \cup Lower \cup Digit \cup {"_"}

\* what follows `*\s*` in a stripped line that starts with *
AfterStar(stripped) == LStrip(Slice(stripped, 1, Len(stripped)))

\* is_jsdoc_comment: one of jsdoc_patterns matches line.strip()
is_jsdoc_comment(line) ==
  LET stripped == Strip(line) IN
  \/ StartsWith(stripped, DocOpen)
  \/ /\ StartsWith(stripped, <<"*">>)
     /\ LET rest == AfterStar(stripped) IN
        \/ StartsWith(rest, <<"@">>)
        \/ rest # <<>> /\ rest[1] \in Upper
        \/ rest = <<>>
        \/ rest # <<>> /\ IsWord(rest[1]) /\ Contains(rest, <<":">>)
  \/ stripped = BlockClose

\* is_normal_comment
is_normal_comment(line) ==
  LET stripped == Strip(line) IN
  IF is_jsdoc_comment(line) THEN FALSE
  ELSE \/ StartsWith(stripped, LineMark)
       \/ StartsWith(stripped, BlockOpen) /\ ~StartsWith(stripped, DocOpen)
       \/ StartsWith(stripped, <<"*">>) /\ ~StartsWith(AfterStar(stripped), <<"@">>)
       \/ stripped = BlockClose
       \/ StartsWith(stripped, <<"<", "!", "-", "-">>)
       \/ StartsWith(stripped, <<"#">>)

\* should_preserve_line
should_preserve_line(line) ==
  IF Strip(line) = <<>> THEN TRUE
  ELSE IF is_jsdoc_comment(line) THEN TRUE
  ELSE IF is_normal_comment(line) THEN FALSE
  ELSE TRUE

CfcBranch(in_jsdoc_block, in_multiline_comment, line) ==
  LET stripped == Strip(line) IN
  IF StartsWith(stripped, DocOpen) THEN "jsdoc_start"
  ELSE IF in_jsdoc_block /\ StartsWith(stripped, BlockClose) THEN "jsdoc_end"
  ELSE IF in_jsdoc_block THEN "jsdoc_body"
  ELSE IF StartsWith(stripped, BlockOpen) /\ ~StartsWith(stripped, DocOpen)
          /\ ~in_jsdoc_block
    THEN "multiline_open"
  ELSE IF in_multiline_comment /\ Contains(stripped, BlockClose) THEN "multiline_end"
  ELSE IF in_multiline_comment THEN "multiline_body"
  ELSE "single"

\* the loop body with the lines inside a block comment kept (line 121-123
\* appending to cleaned_lines)
CfcLineKeepBody(in_jsdoc_block, in_multiline_comment, line) ==
  LET branch == CfcBranch(in_jsdoc_block, in_multiline_comment, line)
      base == [branch |-> branch, in_jsdoc |-> in_jsdoc_block,
               in_multiline_comment |-> in_multiline_comment, kept |-> TRUE]
  IN
  CASE branch = "jsdoc_start" -> [base EXCEPT !.in_jsdoc = TRUE]
    [] branch = "jsdoc_end" -> [base EXCEPT !.in_jsdoc = FALSE]
    [] branch = "jsdoc_body" -> base
    [] branch = "multiline_open" ->
         [base EXCEPT !.in_multiline_comment = TRUE, !.kept = FALSE]
    [] branch = "multiline_end" ->
         [base EXCEPT !.in_multiline_comment = FALSE, !.kept = FALSE]
    [] branch = "multiline_body" -> base
    [] OTHER -> [base EXCEPT !.kept = should_preserve_line(line)]

\* the whole loop body. Result: the flags, and whether the line goes to
\* cleaned_lines (kept) or to removed_lines
CfcLine(in_jsdoc_block, in_multiline_comment, line) ==
  LET branch == CfcBranch(in_jsdoc_block, in_multiline_comment, line)
      base == [branch |-> branch, in_jsdoc |-> in_jsdoc_block,
               in_multiline_comment |-> in_multiline_comment, kept |-> TRUE]
  IN
  CASE branch = "jsdoc_start" -> [base EXCEPT !.in_jsdoc = TRUE]
    [] branch = "jsdoc_end" -> [base EXCEPT !.in_jsdoc = FALSE]
    [] branch = "jsdoc_body" -> base
    [] branch = "multiline_open" ->
         [base EXCEPT !.in_multiline_comment = TRUE, !.kept = FALSE]
    [] branch = "multiline_end" ->
         [base EXCEPT !.in_multiline_comment = FALSE, !.kept = FALSE]
    [] branch = "multiline_body" -> [base EXCEPT !.kept = FALSE]
    [] OTHER -> [base EXCEPT !.kept = should_preserve_line(line)]

\* ------------------------------------------------------------------------
\* remove_inline_comments over a whole file.  A text is a sequence of
\* characters, "\n" among them.
\* ------------------------------------------------------------------------
RECURSIVE Split(_)
\* text.split('\n')
Split(text) ==
  IF Find(text, <<"\n">>) < 0 THEN <<text>>
  ELSE <<Slice(text, 0, Find(text, <<"\n">>))>>
         \o Split(Slice(text, Find(text, <<"\n">>) + 1, Len(text)))

RECURSIVE Join(_)
\* '\n'.join(lines)
Join(lines) ==
  IF lines = <<>> THEN <<>>
  ELSE IF Len(lines) = 1 THEN lines[1]
  ELSE lines[1] \o <<"\n">> \o Join(Tail(lines))

\* len(modified_lines) > 0 and modified_lines[-1].strip()
TailNonblank(modified_lines) ==
  modified_lines # <<>> /\ Strip(modified_lines[Len(modified_lines)]) # <<>>

RECURSIVE RicLoop(_, _)
\* line 17-106: the loop's variables after the first k lines
RicLoop(lines, k) ==
  IF k = 0 THEN [in_jsdoc |-> FALSE, in_multiline_comment |-> FALSE,
                 modified_lines |-> <<>>, changes_made |-> 0]
  ELSE LET st == RicLoop(lines, k - 1)
           r == RicLine(st.in_jsdoc, st.in_multiline_comment,
                        TailNonblank(st.modified_lines), lines[k])
       IN [in_jsdoc |-> r.in_jsdoc, in_multiline_comment |-> r.in_multiline_comment,
           modified_lines |-> st.modified_lines \o r.appended,
           changes_made |-> st.changes_made + r.changes]

RECURSIVE DropBlankTail(_)
\* line 109-110
DropBlankTail(modified_lines) ==
  IF modified_lines # <<>> /\ Strip(modified_lines[Len(modified_lines)]) = <<>>
  THEN DropBlankTail(SubSeq(modified_lines, 1, Len(modified_lines) - 1))
  ELSE modified_lines

\* line 112-115
NewContent(modified_lines) ==
  LET kept == DropBlankTail(modified_lines)
  IN Join(IF kept # <<>> THEN kept \o << <<>> >> ELSE kept)

\* the whole function: the text of the file afterwards and the value returned
remove_inline_comments(text) ==
  LET lines == Split(text)
      st == RicLoop(lines, Len(lines))
  IN IF st.changes_made > 0
     THEN [content |-> NewContent(st.modified_lines), returned |-> st.changes_made]
     ELSE [content |-> text, returned |-> 0]

RECURSIVE FicLoop(_, _)
\* scan_remaining_comments.py, line 16-96: the loop's variables after the
\* first k lines; every record gets the number of its line (i + 1)
FicLoop(lines, k) ==
  IF k = 0 THEN [in_jsdoc |-> FALSE, in_multiline_comment |-> FALSE,
                 inline_comments |-> <<>>]
  ELSE LET st == FicLoop(lines, k - 1)
           r == FicLine(st.in_jsdoc, st.in_multiline_comment, lines[k])
       IN [in_jsdoc |-> r.in_jsdoc, in_multiline_comment |-> r.in_multiline_comment,
           inline_comments |->
             st.inline_comments
               \o [j \in 1..Len(r.found) |-> [line |-> k] @@ r.found[j]]]

\* the whole function: the list returned
find_inline_comments(text) ==
  FicLoop(Split(text), Len(Split(text))).inline_comments

FileTokens == {<<"x">>, <<" ">>, <<"*">>, <<Backtick>>, <<"\n">>,
               LineMark, BlockOpen, BlockClose}

\* ------------------------------------------------------------------------
\* clean_file_comments over a whole file
\* ------------------------------------------------------------------------
RECURSIVE ReadLines(_)
\* f.readlines(): the lines of the text, each with its "\n"
ReadLines(text) ==
  IF text = <<>> THEN <<>>
  ELSE IF Find(text, <<"\n">>) < 0 THEN <<text>>
  ELSE <<Slice(text, 0, Find(text, <<"\n">>) + 1)>>
         \o ReadLines(Slice(text, Find(text, <<"\n">>) + 1, Len(text)))

RECURSIVE WriteLines(_)
\* f.writelines(lines)
WriteLines(lines) ==
  IF lines = <<>> THEN <<>> ELSE lines[1] \o WriteLines(Tail(lines))

\* line 95-129: one iteration on the k-th line (line_number k), from the
\* loop's variables st
CfcStep(st, k, line) ==
  LET r == CfcLine(st.in_jsdoc_block, st.in_multiline_comment, line)
  IN [in_jsdoc_block |-> r.in_jsdoc,
      in_multiline_comment |-> r.in_multiline_comment,
      cleaned_lines |-> IF r.kept THEN Append(st.cleaned_lines, line)
                        ELSE st.cleaned_lines,
      removed_lines |-> IF r.kept THEN st.removed_lines
                        ELSE Append(st.removed_lines, <<k, RStrip(line)>>)]

RECURSIVE CfcLoop(_, _)
\* line 89-129: the loop's variables after the first k lines
CfcLoop(lines, k) ==
  IF k = 0 THEN [in_jsdoc_block |-> FALSE, in_multiline_comment |-> FALSE,
                 cleaned_lines |-> <<>>, removed_lines |-> <<>>]
  ELSE CfcStep(CfcLoop(lines, k - 1), k, lines[k])

\* the whole function: the text of the file afterwards and the value returned
clean_file_comments(text) ==
  LET lines == ReadLines(text)
      st == CfcLoop(lines, Len(lines))
  IN [content |-> WriteLines(st.cleaned_lines),
      returned |-> [original_lines |-> Len(lines),
                    cleaned_lines |-> Len(st.cleaned_lines),
                    removed_lines |-> Len(lines) - Len(st.cleaned_lines),
                    removed_content |-> st.removed_lines]]

\* the lines of the files given to clean_file_comments
CleanLines == {DocOpen, BlockClose, BlockOpen, <<"x">>, LineMark, <<"*", " ", "x">>,
               <<"*", " ", "X">>, <<"x", "*", "/">>, <<>>}

\* the sequences of at most n elements of S
SeqUpTo(S, n) == UNION {[1..k -> S] : k \in 0..n}

RECURSIVE EndLines(_)
\* every line followed by "\n"
EndLines(lines) ==
  IF lines = <<>> THEN <<>> ELSE lines[1] \o <<"\n">> \o EndLines(Tail(lines))

\* the files: every line ends with "\n", or every line but the last
CleanTexts == {EndLines(ls) : ls \in SeqUpTo(CleanLines, MaxCleanLines)}
                \cup {Join(ls) : ls \in SeqUpTo(CleanLines, MaxCleanLines)}

\* ------------------------------------------------------------------------
\* More of Python's string and regular-expression primitives
\* ------------------------------------------------------------------------
\* None, where the other values are strings or lists
Nothing == <<None>>

\* None, where the other values are records
NoMethod == [method_name |-> None]

\* lines[k]
LineAt(lines, k) == lines[k + 1]

RECURSIVE SplitOn(_, _)
\* s.split(sep)
SplitOn(s, sep) ==
  IF Find(s, sep) < 0 THEN <<s>>
  ELSE <<Slice(s, 0, Find(s, sep))>>
         \o SplitOn(Slice(s, Find(s, sep) + Len(sep), Len(s)), sep)

\* s.count(c), c one character
Count(s, c) == Cardinality({k \in 1..Len(s) : s[k] = c})

LetterLower == <<"a", "b", "c", "d", "e", "f", "g", "h", "i", "j", "k", "l", "m",
                 "n", "o", "p", "q", "r", "s", "t", "u", "v", "w", "x", "y", "z">>

LetterUpper == <<"A", "B", "C", "D", "E", "F", "G", "H", "I", "J", "K", "L", "M",
                 "N", "O", "P", "Q", "R", "S", "T", "U", "V", "W", "X", "Y", "Z">>

\* the place of c in the alphabet t, or 0
LetterIndex(t, c) ==
  IF \E k \in 1..26 : t[k] = c THEN CHOOSE k \in 1..26 : t[k] = c ELSE 0

\* c.lower(), c.upper()
ToLower(c) ==
  IF LetterIndex(LetterUpper, c) > 0 THEN LetterLower[LetterIndex(LetterUpper, c)] ELSE c

ToUpper(c) ==
  IF LetterIndex(LetterLower, c) > 0 THEN LetterUpper[LetterIndex(LetterLower, c)] ELSE c

\* s.lower()
LowerStr(s) == [k \in 1..Len(s) |-> ToLower(s[k])]

\* s.capitalize()
Capitalize(s) == [k \in 1..Len(s) |-> IF k = 1 THEN ToUpper(s[k]) ELSE ToLower(s[k])]

\* the end of the run of \w characters that holds index p
WordEnd(s, p) ==
  CHOOSE e \in p..Len(s) :
    (e = Len(s) \/ ~IsWord(At(s, e))) /\ \A m \in p..(e - 1) : IsWord(At(s, m))

\* the end of the run of \s characters that starts at index e (e itself if none)
SkipSpace(s, e) ==
  CHOOSE q \in e..Len(s) :
    (q = Len(s) \/ ~IsSpace(At(s, q))) /\ \A m \in e..(q - 1) : IsSpace(At(s, m))

\* (\w+)\s*\( matches at index p
NameMatchAt(s, p) ==
  /\ p < Len(s) /\ IsWord(At(s, p))
  /\ LET q == SkipSpace(s, WordEnd(s, p)) IN q < Len(s) /\ At(s, q) = "("

\* re.search(r'(\w+)\s*\(', s): group(1), or None without a match
NameSearch(s) ==
  IF \E p \in 0..(Len(s) - 1) : NameMatchAt(s, p)
  THEN LET p == CHOOSE p \in 0..(Len(s) - 1) :
                  NameMatchAt(s, p) /\ \A m \in 0..(p - 1) : ~NameMatchAt(s, m)
       IN Slice(s, p, WordEnd(s, p))
  ELSE Nothing

\* re.search(r'\(([^)]*)\)', s): group(1), or None without a match
ParamSearch(s) ==
  LET a == Find(s, <<"(">>)
      rest == Slice(s, a + 1, Len(s))
  IN IF a < 0 \/ Find(rest, <<")">>) < 0 THEN Nothing
     ELSE Slice(rest, 0, Find(rest, <<")">>))

\* the end of the run of characters other than { that starts at index q
SkipToBrace(s, q) ==
  CHOOSE e \in q..Len(s) :
    (e = Len(s) \/ At(s, e) = "{") /\ \A m \in q..(e - 1) : At(s, m) # "{"

\* \):\s*([^{]+) matches at index p: \s* takes all the whitespace and [^{]+ what
\* follows, or (before a { or the end) \s* gives its last character to [^{]+
ReturnMatchAt(s, p) ==
  /\ MatchAt(s, <<")", ":">>, p)
  /\ LET q == SkipSpace(s, p + 2)
     IN (q < Len(s) /\ At(s, q) # "{") \/ q > p + 2

\* re.search(r'\):\s*([^{]+)', s): group(1), or None without a match
ReturnSearch(s) ==
  IF \E p \in 0..(Len(s) - 1) : ReturnMatchAt(s, p)
  THEN LET p == CHOOSE p \in 0..(Len(s) - 1) :
                  ReturnMatchAt(s, p) /\ \A m \in 0..(p - 1) : ~ReturnMatchAt(s, m)
           q == SkipSpace(s, p + 2)
       IN IF q < Len(s) /\ At(s, q) # "{" THEN Slice(s, q, SkipToBrace(s, q))
          ELSE Slice(s, q - 1, q)
  ELSE Nothing

\* ------------------------------------------------------------------------
\* add_missing_jsdoc.py: should_add_jsdoc, generate_jsdoc_comment,
\* generate_description, add_basic_jsdoc
\* ------------------------------------------------------------------------
\* the string literals of the declaration matchers
StrConstructor == <<"c", "o", "n", "s", "t", "r", "u", "c", "t", "o", "r">>

StrGet == <<"g", "e", "t", " ">>

StrSet == <<"s", "e", "t", " ">>

StrExport == <<"e", "x", "p", "o", "r", "t", " ">>

StrImport == <<"i", "m", "p", "o", "r", "t", " ">>

StrInterface == <<"i", "n", "t", "e", "r", "f", "a", "c", "e">>

StrClass == <<"c", "l", "a", "s", "s">>

StrEnum == <<"e", "n", "u", "m">>

StrBraceCatch == <<"}", " ", "c", "a", "t", "c", "h">>

StrCatch == <<"c", "a", "t", "c", "h">>

StrAsync == <<"a", "s", "y", "n", "c", " ">>

StrNgOnInit == <<"n", "g", "O", "n", "I", "n", "i", "t">>

StrNgOnDestroy == <<"n", "g", "O", "n", "D", "e", "s", "t", "r", "o", "y">>

StrNgOnChanges == <<"n", "g", "O", "n", "C", "h", "a", "n", "g", "e", "s">>

StrNgAfterViewInit == <<"n", "g", "A", "f", "t", "e", "r", "V", "i", "e", "w",
                        "I", "n", "i", "t">>

StrVoid == <<"v", "o", "i", "d">>

StrUnknown == <<"u", "n", "k", "n", "o", "w", "n">>

StrPromise == <<"P", "r", "o", "m", "i", "s", "e">>

StrBoolean == <<"b", "o", "o", "l", "e", "a", "n">>

StrString == <<"s", "t", "r", "i", "n", "g">>

StrNumber == <<"n", "u", "m", "b", "e", "r">>

\* i + 1 < len(lines) and lines[i + 1].strip() == '{'
NextIsBrace(lines, i) ==
  i + 1 < Len(lines) /\ Strip(LineAt(lines, i + 1)) = <<"{">>

\* line 69-84: the patterns that are skipped
AbjSkipped(stripped) ==
  \/ stripped = <<>>
  \/ StartsWith(stripped, LineMark)
  \/ StartsWith(stripped, <<"*">>)
  \/ StartsWith(stripped, BlockOpen)
  \/ StartsWith(stripped, StrConstructor)
  \/ StartsWith(stripped, StrGet)
  \/ StartsWith(stripped, StrSet)
  \/ Contains(SplitFirst(stripped, <<"(">>), <<"=">>)
  \/ StartsWith(stripped, StrExport)
  \/ StartsWith(stripped, <<"@">>)
  \/ Contains(stripped, StrInterface)
  \/ Contains(stripped, StrClass)
  \/ Contains(stripped, StrEnum)
  \/ StartsWith(stripped, StrBraceCatch)
  \/ StartsWith(stripped, StrCatch)

\* line 87-92: the method/function patterns
AbjPattern(stripped, lines, i) ==
  \/ /\ Contains(stripped, <<"(">>) /\ Contains(stripped, <<")">>)
     /\ Contains(stripped, <<":">>)
     /\ (EndsWith(stripped, <<"{">>) \/ NextIsBrace(lines, i))
  \/ /\ StartsWith(stripped, StrAsync)
     /\ Contains(stripped, <<"(">>) /\ Contains(stripped, <<")">>)
  \/ StartsWith(stripped, StrNgOnInit)
  \/ StartsWith(stripped, StrNgOnDestroy)
  \/ StartsWith(stripped, StrNgOnChanges)

should_add_jsdoc(stripped, lines, i) ==
  IF AbjSkipped(stripped) THEN FALSE ELSE AbjPattern(stripped, lines, i)

\* the string literals of generate_jsdoc_comment and generate_description
DescNgOnInit == <<"A", "n", "g", "u", "l", "a", "r", " ", "l", "i", "f", "e",
                  "c", "y", "c", "l", "e", " ", "h", "o", "o", "k", " ", "-",
                  " ", "c", "o", "m", "p", "o", "n", "e", "n", "t", " ", "i",
                  "n", "i", "t", "i", "a", "l", "i", "z", "a", "t", "i", "o",
                  "n", ".">>

DescNgOnDestroy == <<"A", "n", "g", "u", "l", "a", "r", " ", "l", "i", "f",
                     "e", "c", "y", "c", "l", "e", " ", "h", "o", "o", "k",
                     " ", "-", " ", "c", "o", "m", "p", "o", "n", "e", "n",
                     "t", " ", "c", "l", "e", "a", "n", "u", "p", ".">>

DescNgOnChanges == <<"A", "n", "g", "u", "l", "a", "r", " ", "l", "i", "f",
                     "e", "c", "y", "c", "l", "e", " ", "h", "o", "o", "k",
                     " ", "-", " ", "h", "a", "n", "d", "l", "e", "s", " ",
                     "i", "n", "p", "u", "t", " ", "c", "h", "a", "n", "g",
                     "e", "s", ".">>

DescNgPrefix == <<"A", "n", "g", "u", "l", "a", "r", " ", "l", "i", "f", "e",
                  "c", "y", "c", "l", "e", " ", "h", "o", "o", "k", " ", "-",
                  " ">>

DescHandles == <<"H", "a", "n", "d", "l", "e", "s", " ">>

DescGets == <<"G", "e", "t", "s", " ">>

DescSets == <<"S", "e", "t", "s", " ">>

DescChecksIf == <<"C", "h", "e", "c", "k", "s", " ", "i", "f", " ">>

DescToggles == <<"T", "o", "g", "g", "l", "e", "s", " ">>

DescCreates == <<"C", "r", "e", "a", "t", "e", "s", " ">>

DescUpdates == <<"U", "p", "d", "a", "t", "e", "s", " ">>

DescDeletes == <<"D", "e", "l", "e", "t", "e", "s", " ">>

DescValidates == <<"V", "a", "l", "i", "d", "a", "t", "e", "s", " ">>

DescProcesses == <<"P", "r", "o", "c", "e", "s", "s", "e", "s", " ">>

DescEvents == <<" ", "e", "v", "e", "n", "t", "s", ".">>

DescValue == <<" ", "v", "a", "l", "u", "e", ".">>

DescState == <<" ", "s", "t", "a", "t", "e", ".">>

DescFunctionality == <<" ", "f", "u", "n", "c", "t", "i", "o", "n", "a", "l",
                       "i", "t", "y", ".">>

DocStar == <<" ", "*", " ">>

DocParam == <<" ", "*", " ", "@", "p", "a", "r", "a", "m", " ">>

DocParamDash == <<" ", "-", " ">>

DocParameter == <<" ", "p", "a", "r", "a", "m", "e", "t", "e", "r">>

DocReturns == <<" ", "*", " ", "@", "r", "e", "t", "u", "r", "n", "s", " ">>

DocReturnsPromise == <<" ", "*", " ", "@", "r", "e", "t", "u", "r", "n", "s",
                       " ", "P", "r", "o", "m", "i", "s", "e", " ", "t", "h",
                       "a", "t", " ", "r", "e", "s", "o", "l", "v", "e", "s",
                       " ", "w", "h", "e", "n", " ", "o", "p", "e", "r", "a",
                       "t", "i", "o", "n", " ", "c", "o", "m", "p", "l", "e",
                       "t", "e", "s">>

DocReturnsBoolean == <<" ", "*", " ", "@", "r", "e", "t", "u", "r", "n", "s",
                       " ", "B", "o", "o", "l", "e", "a", "n", " ", "r", "e",
                       "s", "u", "l", "t">>

DocReturnsString == <<" ", "*", " ", "@", "r", "e", "t", "u", "r", "n", "s",
                      " ", "S", "t", "r", "i", "n", "g", " ", "r", "e", "s",
                      "u", "l", "t">>

DocReturnsNumber == <<" ", "*", " ", "@", "r", "e", "t", "u", "r", "n", "s",
                      " ", "N", "u", "m", "e", "r", "i", "c", " ", "r", "e",
                      "s", "u", "l", "t">>

DocEnd == <<" ", "*", "/">>

\* line 200 alone: the default description for every name
generate_description_default(method_name) ==
  DescHandles \o method_name \o DescFunctionality

\* line 153-200
generate_description(method_name) ==
  LET rest(n) == LowerStr(Slice(method_name, n, Len(method_name))) IN
  IF StartsWith(method_name, <<"n", "g">>)
  THEN IF method_name = StrNgOnInit THEN DescNgOnInit
       ELSE IF method_name = StrNgOnDestroy THEN DescNgOnDestroy
       ELSE IF method_name = StrNgOnChanges THEN DescNgOnChanges
       ELSE DescNgPrefix \o method_name \o <<".">>
  ELSE IF StartsWith(method_name, <<"o", "n">>)
    THEN DescHandles \o rest(2) \o DescEvents
  ELSE IF StartsWith(method_name, <<"g", "e", "t">>)
    THEN DescGets \o rest(3) \o DescValue
  ELSE IF StartsWith(method_name, <<"s", "e", "t">>)
    THEN DescSets \o rest(3) \o DescValue
  ELSE IF StartsWith(method_name, <<"i", "s">>) \/ StartsWith(method_name, <<"h", "a", "s">>)
    THEN DescChecksIf \o rest(2) \o <<".">>
  ELSE IF StartsWith(method_name, <<"t", "o", "g", "g", "l", "e">>)
    THEN DescToggles \o rest(6) \o DescState
  ELSE IF StartsWith(method_name, <<"c", "r", "e", "a", "t", "e">>)
    THEN DescCreates \o rest(6) \o <<".">>
  ELSE IF StartsWith(method_name, <<"u", "p", "d", "a", "t", "e">>)
    THEN DescUpdates \o rest(6) \o <<".">>
  ELSE IF \/ StartsWith(method_name, <<"d", "e", "l", "e", "t", "e">>)
          \/ StartsWith(method_name, <<"r", "e", "m", "o", "v", "e">>)
    THEN DescDeletes \o rest(6) \o <<".">>
  ELSE IF StartsWith(method_name, <<"v", "a", "l", "i", "d", "a", "t", "e">>)
    THEN DescValidates \o rest(8) \o <<".">>
  ELSE IF StartsWith(method_name, <<"h", "a", "n", "d", "l", "e">>)
    THEN DescHandles \o rest(6) \o <<".">>
  ELSE IF StartsWith(method_name, <<"p", "r", "o", "c", "e", "s", "s">>)
    THEN DescProcesses \o rest(7) \o <<".">>
  ELSE DescHandles \o method_name \o DescFunctionality

RECURSIVE ParamLoop(_, _)
\* line 111-116: params after the first k segments of param_str.split(',')
ParamLoop(parts, k) ==
  IF k = 0 THEN <<>>
  ELSE LET param == Strip(parts[k])
           param_name == Strip(SplitFirst(param, <<":">>))
       IN IF /\ param # <<>> /\ Contains(param, <<":">>)
             /\ param_name # <<>> /\ ~StartsWith(param_name, <<".", ".", ".">>)
          THEN Append(ParamLoop(parts, k - 1), param_name)
          ELSE ParamLoop(parts, k - 1)

\* line 105-116 with the last segment of the argument text left out
JsdocParamsDropLast(method_line) ==
  LET param_match == ParamSearch(method_line) IN
  IF param_match = Nothing THEN <<>>
  ELSE IF Strip(param_match) = <<>> THEN <<>>
  ELSE LET parts == SplitOn(Strip(param_match), <<",">>)
       IN ParamLoop(parts, Len(parts) - 1)

\* line 105-116: params
JsdocParams(method_line) ==
  LET param_match == ParamSearch(method_line) IN
  IF param_match = Nothing THEN <<>>
  ELSE IF Strip(param_match) = <<>> THEN <<>>
  ELSE LET parts == SplitOn(Strip(param_match), <<",">>)
       IN ParamLoop(parts, Len(parts))

\* line 119-120: return_type
JsdocReturnType(method_line) ==
  IF ReturnSearch(method_line) = Nothing THEN StrVoid
  ELSE Strip(ReturnSearch(method_line))

\* line 134-144 with the test for boolean made before the test for Promise
JsdocReturnsBooleanFirst(return_type) ==
  IF return_type = StrVoid \/ return_type = <<>> THEN <<>>
  ELSE IF Contains(return_type, StrBoolean) THEN <<DocReturnsBoolean>>
  ELSE IF Contains(return_type, StrPromise) THEN <<DocReturnsPromise>>
  ELSE IF Contains(return_type, StrString) THEN <<DocReturnsString>>
  ELSE IF Contains(return_type, StrNumber) THEN <<DocReturnsNumber>>
  ELSE <<DocReturns \o return_type>>

\* line 134-144: the @returns line, if any
JsdocReturns(return_type) ==
  IF return_type = StrVoid \/ return_type = <<>> THEN <<>>
  ELSE IF Contains(return_type, StrPromise) THEN <<DocReturnsPromise>>
  ELSE IF Contains(return_type, StrBoolean) THEN <<DocReturnsBoolean>>
  ELSE IF Contains(return_type, StrString) THEN <<DocReturnsString>>
  ELSE IF Contains(return_type, StrNumber) THEN <<DocReturnsNumber>>
  ELSE <<DocReturns \o return_type>>

\* the lines of the doc block, or None
generate_jsdoc_comment(method_line, full_line) ==
  LET method_name == NameSearch(method_line)
      params == JsdocParams(method_line)
  IN IF method_name = Nothing THEN Nothing
     ELSE <<DocOpen, DocStar \o generate_description(method_name)>>
          \o [k \in 1..Len(params) |->
                DocParam \o params[k] \o DocParamDash \o Capitalize(params[k])
                  \o DocParameter]
          \o JsdocReturns(JsdocReturnType(method_line))
          \o <<DocEnd>>

\* line 25-27: the index of the nearest non-empty line above line i, or -1
PrevNonEmpty(lines, i) ==
  IF \E k \in 0..(i - 1) : Strip(LineAt(lines, k)) # <<>>
  THEN CHOOSE k \in 0..(i - 1) :
         /\ Strip(LineAt(lines, k)) # <<>>
         /\ \A m \in (k + 1)..(i - 1) : Strip(LineAt(lines, m)) = <<>>
  ELSE -1

\* line 34-36: the index of the nearest line above prev_line_idx that does not
\* start with *, or -1
AboveStars(lines, prev_line_idx) ==
  IF \E k \in 0..(prev_line_idx - 1) : ~StartsWith(Strip(LineAt(lines, k)), <<"*">>)
  THEN CHOOSE k \in 0..(prev_line_idx - 1) :
         /\ ~StartsWith(Strip(LineAt(lines, k)), <<"*">>)
         /\ \A m \in (k + 1)..(prev_line_idx - 1) :
              StartsWith(Strip(LineAt(lines, m)), <<"*">>)
  ELSE -1

\* has_jsdoc without the walk over the lines that start with * (line 35-36):
\* the line right above the closing line must open the doc comment
has_jsdoc_no_walk(lines, i) ==
  LET prev_line_idx == PrevNonEmpty(lines, i) IN
  IF prev_line_idx < 0 THEN FALSE
  ELSE LET prev_line == Strip(LineAt(lines, prev_line_idx))
           j == prev_line_idx - 1
       IN /\ prev_line = BlockClose \/ StartsWith(prev_line, BlockClose)
          /\ j >= 0
          /\ StartsWith(Strip(LineAt(lines, j)), DocOpen)

\* line 25-38: has_jsdoc (the same in find_missing_jsdoc, line 41-54)
has_jsdoc(lines, i) ==
  LET prev_line_idx == PrevNonEmpty(lines, i) IN
  IF prev_line_idx < 0 THEN FALSE
  ELSE LET prev_line == Strip(LineAt(lines, prev_line_idx))
           j == AboveStars(lines, prev_line_idx)
       IN /\ prev_line = BlockClose \/ StartsWith(prev_line, BlockClose)
          /\ j >= 0
          /\ StartsWith(Strip(LineAt(lines, j)), DocOpen)

\* line 45: indent
Indent(line) == Slice(line, 0, Len(line) - Len(LStrip(line)))

\* line 23-48 with the block's lines appended without the indent of line 43
AbjBlockNoIndent(lines, i) ==
  LET line == LineAt(lines, i)
      stripped == Strip(line)
      jsdoc == generate_jsdoc_comment(stripped, line)
  IN IF should_add_jsdoc(stripped, lines, i) /\ ~has_jsdoc(lines, i) /\ jsdoc # Nothing
     THEN jsdoc
     ELSE <<>>

\* line 23-48: the doc block inserted above line i (<<>> when none is)
AbjBlock(lines, i) ==
  LET line == LineAt(lines, i)
      stripped == Strip(line)
      jsdoc == generate_jsdoc_comment(stripped, line)
  IN IF should_add_jsdoc(stripped, lines, i) /\ ~has_jsdoc(lines, i) /\ jsdoc # Nothing
     THEN [k \in 1..Len(jsdoc) |-> Indent(line) \o jsdoc[k]]
     ELSE <<>>

\* line 18-51: one iteration on line i, from the loop's variables st; inserted
\* holds the i of every iteration that reached line 48
AbjStep(st, lines, i) ==
  LET block == AbjBlock(lines, i) IN
  [modified_lines |-> st.modified_lines \o block \o <<LineAt(lines, i)>>,
   changes_made |-> st.changes_made + (IF block # <<>> THEN 1 ELSE 0),
   inserted |-> IF block # <<>> THEN Append(st.inserted, i) ELSE st.inserted]

RECURSIVE AbjLoop(_, _)
\* line 14-51: the loop's variables when i = k
AbjLoop(lines, k) ==
  IF k = 0 THEN [modified_lines |-> <<>>, changes_made |-> 0, inserted |-> <<>>]
  ELSE AbjStep(AbjLoop(lines, k - 1), lines, k - 1)

\* the whole function: the text of the file afterwards, the value returned, and
\* the lines above which a block was inserted
add_basic_jsdoc(text) ==
  LET lines == Split(text)
      st == AbjLoop(lines, Len(lines))
  IN IF st.changes_made > 0
     THEN [content |-> Join(st.modified_lines), returned |-> st.changes_made,
           inserted |-> st.inserted]
     ELSE [content |-> text, returned |-> 0, inserted |-> <<>>]

\* ------------------------------------------------------------------------
\* analyze_missing_jsdoc.py: find_missing_jsdoc
\* ------------------------------------------------------------------------
\* line 20: empty lines and comments
FmjSkipped(stripped) ==
  \/ stripped = <<>>
  \/ StartsWith(stripped, LineMark)
  \/ StartsWith(stripped, <<"*">>)
  \/ StartsWith(stripped, BlockOpen)

\* line 24-26: method/function declarations
FmjPattern(stripped, lines, i) ==
  \/ /\ Contains(stripped, <<"(">>) /\ Contains(stripped, <<")">>)
     /\ Contains(stripped, <<":">>)
     /\ (EndsWith(stripped, <<"{">>) \/ NextIsBrace(lines, i))
  \/ /\ StartsWith(stripped, StrAsync)
     /\ Contains(stripped, <<"(">>) /\ Contains(stripped, <<")">>)

\* line 29-37: constructors, getters, setters, property assignments, ...
FmjDenied(stripped) ==
  \/ StartsWith(stripped, StrConstructor)
  \/ StartsWith(stripped, StrGet)
  \/ StartsWith(stripped, StrSet)
  \/ Contains(SplitFirst(stripped, <<"(">>), <<"=">>)
  \/ StartsWith(stripped, StrExport)
  \/ StartsWith(stripped, <<"@">>)
  \/ Contains(stripped, StrInterface)
  \/ Contains(stripped, StrClass)
  \/ Contains(stripped, StrEnum)

\* line 20-38: line i comes to the has_jsdoc test
FmjCandidate(lines, i) ==
  LET stripped == Strip(LineAt(lines, i)) IN
  ~FmjSkipped(stripped) /\ FmjPattern(stripped, lines, i) /\ ~FmjDenied(stripped)

\* line 16-64: one iteration on line i, from missing_jsdoc
FmjStep(missing_jsdoc, lines, i) ==
  LET stripped == Strip(LineAt(lines, i)) IN
  IF FmjCandidate(lines, i) /\ ~has_jsdoc(lines, i)
  THEN Append(missing_jsdoc,
              [line |-> i + 1,
               method |-> IF NameSearch(stripped) # Nothing THEN NameSearch(stripped)
                          ELSE StrUnknown,
               code |-> stripped])
  ELSE missing_jsdoc

RECURSIVE FmjLoop(_, _)
\* missing_jsdoc after the first k lines
FmjLoop(lines, k) ==
  IF k = 0 THEN <<>> ELSE FmjStep(FmjLoop(lines, k - 1), lines, k - 1)

\* the whole function: the list returned
find_missing_jsdoc(text) == FmjLoop(Split(text), Len(Split(text)))

\* ------------------------------------------------------------------------
\* analyze_method_length_simple.py: is_method_declaration,
\* extract_method_name, analyze_method_from_line, analyze_method_length
\* ------------------------------------------------------------------------
\* line 22-31: empty lines, comments and non-method lines
AmlSkipped(stripped) ==
  \/ stripped = <<>>
  \/ StartsWith(stripped, LineMark)
  \/ StartsWith(stripped, <<"*">>)
  \/ StartsWith(stripped, BlockOpen)
  \/ StartsWith(stripped, StrExport)
  \/ StartsWith(stripped, StrImport)
  \/ StartsWith(stripped, <<"@">>)
  \/ Contains(stripped, StrInterface)
  \/ Contains(stripped, StrEnum)
  \/ (StartsWith(stripped, StrClass \o <<" ">>) /\ Contains(stripped, <<"{">>))

is_method_declaration(stripped, lines, i) ==
  \/ StartsWith(stripped, StrConstructor)
  \/ /\ Contains(stripped, <<"(">>) /\ Contains(stripped, <<")">>)
     /\ \/ /\ Contains(stripped, <<":">>)
           /\ (Contains(stripped, <<"{">>) \/ NextIsBrace(lines, i))
        \/ StartsWith(stripped, StrAsync)
  \/ StartsWith(stripped, StrNgOnInit)
  \/ StartsWith(stripped, StrNgOnDestroy)
  \/ StartsWith(stripped, StrNgOnChanges)
  \/ StartsWith(stripped, StrNgAfterViewInit)

\* the patterns of line 147-153 hold the pattern of line 146, (\w+)\s*\(, as
\* their tail: the loop returns at its first pattern or not at all
extract_method_name(method_line) ==
  IF StartsWith(method_line, StrConstructor) THEN StrConstructor
  ELSE IF StartsWith(method_line, StrNgOnInit) THEN StrNgOnInit
  ELSE IF StartsWith(method_line, StrNgOnDestroy) THEN StrNgOnDestroy
  ELSE IF StartsWith(method_line, StrNgOnChanges) THEN StrNgOnChanges
  ELSE IF StartsWith(method_line, StrNgAfterViewInit) THEN StrNgAfterViewInit
  ELSE NameSearch(method_line)

\* line 106-111: the line counts as a code line
AmfCodeLine(method_started, stripped) ==
  /\ method_started /\ stripped # <<>>
  /\ ~StartsWith(stripped, LineMark)
  /\ ~StartsWith(stripped, <<"*">>)
  /\ ~StartsWith(stripped, BlockOpen)
  /\ stripped # <<"{">>
  /\ stripped # <<"}">>

\* line 90-112 with total_lines counted on the non-blank lines only
AmfStepSkipBlank(st, line) ==
  LET open_braces == Count(line, "{")
      close_braces == Count(line, "}")
      method_started == st.method_started \/ open_braces > 0
  IN [brace_count |-> st.brace_count + open_braces - close_braces,
      method_started |-> method_started,
      total_lines |-> st.total_lines + (IF Strip(line) # <<>> THEN 1 ELSE 0),
      code_lines |-> st.code_lines
                       + (IF AmfCodeLine(method_started, Strip(line)) THEN 1 ELSE 0)]

\* line 90-112: one iteration of the loop up to its return test, from the
\* loop's variables st
AmfStep(st, line) ==
  LET open_braces == Count(line, "{")
      close_braces == Count(line, "}")
      method_started == st.method_started \/ open_braces > 0
  IN [brace_count |-> st.brace_count + open_braces - close_braces,
      method_started |-> method_started,
      total_lines |-> st.total_lines + 1,
      code_lines |-> st.code_lines
                       + (IF AmfCodeLine(method_started, Strip(line)) THEN 1 ELSE 0)]

RECURSIVE AmfLoop(_, _, _)
\* the loop's variables at the return test of its n-th iteration (i = start_line + n - 1)
AmfLoop(lines, start_line, n) ==
  IF n = 0 THEN [brace_count |-> 0, method_started |-> FALSE,
                 total_lines |-> 0, code_lines |-> 0]
  ELSE AmfStep(AmfLoop(lines, start_line, n - 1), LineAt(lines, start_line + n - 1))

\* the return test with the first closing brace on a line after the body has
\* opened taken as the method's end
AmfEndsAtClose(lines, start_line, n) ==
  /\ AmfLoop(lines, start_line, n).method_started
  /\ \/ AmfLoop(lines, start_line, n).brace_count <= 0
     \/ Count(LineAt(lines, start_line + n - 1), "}") > 0

\* line 115: the n-th iteration returns
AmfEnds(lines, start_line, n) ==
  /\ AmfLoop(lines, start_line, n).method_started
  /\ AmfLoop(lines, start_line, n).brace_count <= 0

\* the whole function (file_path left out): the record returned, or None
analyze_method_from_line(lines, start_line) ==
  LET method_line == Strip(LineAt(lines, start_line))
      method_name == extract_method_name(method_line)
      N == {n \in 1..(Len(lines) - start_line) : AmfEnds(lines, start_line, n)}
  IN IF method_name = Nothing \/ N = {} THEN NoMethod
     ELSE LET n == CHOOSE n \in N : \A m \in N : n <= m
              st == AmfLoop(lines, start_line, n)
          IN [method_name |-> method_name,
              start_line |-> start_line + 1,
              end_line |-> start_line + n,
              total_lines |-> st.total_lines,
              code_lines |-> st.code_lines,
              declaration |-> method_line]

\* line 38: a method is long
LongLimit == 14

\* line 40 with the scan resumed two lines below a declaration without a span
AmlNextIndexSkip(info, i) == IF info # NoMethod THEN info.end_line ELSE i + 2

\* line 40 with the scan resumed on the end line of the method found
AmlNextIndexOnEnd(info, i) == IF info # NoMethod THEN info.end_line - 1 ELSE i + 1

\* line 40 with the scan resumed on the line below the declaration, whether a
\* span was found or not
AmlNextIndexStep(info, i) == i + 1

\* line 40: the index at which the scan goes on
AmlNextIndex(info, i) == IF info # NoMethod THEN info.end_line ELSE i + 1

\* ------------------------------------------------------------------------
\* Input lines
\* ------------------------------------------------------------------------
Tokens == {<<"x">>, <<" ">>, <<"\"">>, <<"'">>, <<"\\">>, <<"*">>,
           LineMark, BlockOpen, BlockClose, DocOpen}

ScanTokens == {<<"\"">>, <<"\\">>, LineMark}

RECURSIVE Cat(_, _)
\* the concatenations of at most n tokens of T
Cat(T, n) == IF n = 0 THEN {<<>>}
             ELSE LET P == Cat(T, n - 1) IN P \cup {p \o t : p \in P, t \in T}

LineSet == Cat(Tokens, MaxTok) \cup Cat(ScanTokens, MaxScanTok)

Texts == Cat(FileTokens, MaxFileTok)

\* ------------------------------------------------------------------------
\* The files given to the documentation tools
\* ------------------------------------------------------------------------
\* the line of the spec's scenario
LineFoo == <<"f", "u", "n", "c", "t", "i", "o", "n", " ", "f", "o", "o", "(",
             "a", ":", " ", "s", "t", "r", "i", "n", "g", ",", " ", "b", ":",
             " ", "n", "u", "m", "b", "e", "r", ")", ":", " ", "b", "o", "o",
             "l", "e", "a", "n", " ", "{", " ", "r", "e", "t", "u", "r", "n",
             " ", "a", ".", "l", "e", "n", "g", "t", "h", " ", ">", " ", "b",
             ";", " ", "}">>

\* lines of doc comments, and a declaration
DocLineOpen == <<"/", "*", "*">>

DocLineStar == <<" ", "*", " ", "d">>

DocLineEnd == <<" ", "*", "/">>

DocLineSingle == <<"/", "*", "*", " ", "d", " ", "*", "/">>

DocLineTail == <<"d", " ", "*", "/">>

DeclLine == <<"f", "(", "a", ":", " ", "b", ")", ":", " ", "c", " ", "{">>

DocLines == {DocLineOpen, DocLineStar, DocLineEnd, DocLineSingle, DocLineTail, <<>>,
             DeclLine}

\* lines that have the shape of a declaration
DeclNextBrace == <<" ", " ", "g", "(", ")", ":", " ", "v", "o", "i", "d">>

DeclNoName == <<"(", "a", ":", " ", "b", ")", " ", "{">>

DeclAsync == <<"a", "s", "y", "n", "c", " ", "h", "(", ")">>

DeclHook == <<"n", "g", "O", "n", "I", "n", "i", "t", "(", ")", " ", "{">>

DeclCatch == <<"c", "a", "t", "c", "h", " ", "(", "e", ":", " ", "x", ")",
               " ", "{">>

DeclBraceCatch == <<"}", " ", "c", "a", "t", "c", "h", " ", "(", "e", ":",
                    " ", "x", ")", " ", "{">>

DeclConstructor == <<"c", "o", "n", "s", "t", "r", "u", "c", "t", "o", "r",
                     "(", "a", ":", " ", "b", ")", " ", "{">>

DeclGet == <<"g", "e", "t", " ", "v", "(", ")", ":", " ", "c", " ", "{">>

DeclSet == <<"s", "e", "t", " ", "v", "(", "a", ":", " ", "b", ")", " ", "{">>

DeclExport == <<"e", "x", "p", "o", "r", "t", " ", "f", "(", "a", ":", " ",
                "b", ")", ":", " ", "c", " ", "{">>

DeclAssign == <<"v", " ", "=", " ", "(", "a", ":", " ", "b", ")", " ", "{">>

DeclInterface == <<"i", "n", "t", "e", "r", "f", "a", "c", "e", " ", "I", "(",
                   "a", ":", " ", "b", ")", " ", "{">>

DeclEnum == <<"e", "n", "u", "m", " ", "E", "(", "a", ":", " ", "b", ")", " ",
              "{">>

DeclClass == <<"c", "l", "a", "s", "s", " ", "C", "(", "a", ":", " ", "b",
               ")", " ", "{">>

DeclLines == {DeclLine, DeclNextBrace, <<"{">>, DeclNoName, DeclAsync, DeclHook,
              DeclCatch, DeclBraceCatch, DeclConstructor, DeclGet, DeclSet,
              DeclExport, DeclAssign, DeclInterface, DeclEnum, DeclClass, LineFoo}

DocTexts == {Join(ls) : ls \in SeqUpTo(DocLines, MaxDocLines)}
              \cup {Join(ls) : ls \in SeqUpTo(DeclLines, MaxDeclLines)}

\* ------------------------------------------------------------------------
\* The files given to analyze_method_length
\* ------------------------------------------------------------------------
\* lines of method bodies
BodyIf == <<"i", "f", " ", "(", "x", ")", " ", "{">>

BodyStatement == <<"x", ";">>

BodyCloseOpen == <<"}", ";", " ", "y", " ", "=", " ", "{">>

BodyString == <<"s", " ", "=", " ", "\"", "}", "\"", ";">>

BodyComment == <<"/", "/", " ", "}">>

MethodLines == {DeclLine, DeclNextBrace, <<"{">>, <<"}">>, BodyIf, BodyStatement,
                BodyCloseOpen, BodyString, BodyComment, <<>>}

\* a method of n statements
MethodOf(n) == Join(<<DeclLine>> \o [k \in 1..n |-> BodyStatement] \o << <<"}">> >>)

MethodTexts == {Join(ls) : ls \in SeqUpTo(MethodLines, MaxMethodLines)}
                 \cup {MethodOf(LongLimit), MethodOf(LongLimit + 1)}

\* ------------------------------------------------------------------------
\* The scan of a file, line by line.  tool is the script that runs; the file
\* is a stream of lines of LineSet.  in_jsdoc is clean_file_comments'
\* in_jsdoc_block.  appended, removed and found hold what the current
\* iteration appended to modified_lines / cleaned_lines, to removed_lines and
\* to inline_comments, changes what it added to changes_made.
\* content, previous, returned and runs belong to the runs over whole files
\* (FileSpec) and stay as they are here.
\* ------------------------------------------------------------------------
VARIABLES tool, pc, original_line, line, branch, in_jsdoc, in_multiline_comment,
          tail_nonblank, appended, removed, found, changes, comment_index,
          content, previous, returned, runs,
          original, inserted, idx, method_info, long_methods, calls

vars == <<tool, pc, original_line, line, branch, in_jsdoc, in_multiline_comment,
          tail_nonblank, appended, removed, found, changes, comment_index,
          content, previous, returned, runs,
          original, inserted, idx, method_info, long_methods, calls>>

\* the variables of the documentation tools and of the method-length analysis
\* (original is the text of the file before the first run, idx the loop index i)
analysisVars == <<original, inserted, idx, method_info, long_methods, calls>>

\* the variables of analyze_method_length (calls holds the calls of
\* analyze_method_from_line made so far: start_line and the value returned)
methodVars == <<idx, method_info, long_methods, calls>>

\* their values while another tool runs
MethodIdle ==
  /\ idx = 0
  /\ method_info = NoMethod
  /\ long_methods = <<>>
  /\ calls = <<>>

AnalysisIdle ==
  /\ original = <<>>
  /\ inserted = <<>>
  /\ MethodIdle

\* the variables of the runs over whole files
fileVars == <<content, previous, returned, runs>>

\* the locals of the loop body of the line-by-line scan
loopVars == <<pc, original_line, line, branch, in_jsdoc, in_multiline_comment,
              tail_nonblank, appended, removed, found, changes, comment_index>>

\* the variables of the line-by-line scan
scanVars == <<tool, pc, original_line, line, branch, in_jsdoc, in_multiline_comment,
              tail_nonblank, appended, removed, found, changes, comment_index>>

ScanInit ==
  /\ pc = "idle"
  /\ original_line = <<>>
  /\ line = <<>>
  /\ branch = None
  /\ in_jsdoc = FALSE
  /\ in_multiline_comment = FALSE
  /\ tail_nonblank = FALSE
  /\ appended = <<>>
  /\ removed = <<>>
  /\ found = <<>>
  /\ changes = 0
  /\ comment_index = -1

Init ==
  /\ tool \in {"ric", "fic", "cfc"}
  /\ ScanInit
  /\ content = <<>> /\ previous = <<>> /\ returned = 0 /\ runs = 0
  /\ AnalysisIdle

\* the loop header: the next line of the file
ReadLine ==
  /\ pc = "idle"
  /\ \E l \in LineSet : original_line' = l /\ line' = l
  /\ pc' = "read"
  /\ UNCHANGED <<tool, branch, in_jsdoc, in_multiline_comment, tail_nonblank,
                 appended, removed, found, changes, comment_index>>
  /\ UNCHANGED fileVars
  /\ UNCHANGED analysisVars

\* remove_inline_comments: the loop body, taking the branch b
RicProcess(b) ==
  /\ pc = "read" /\ tool = "ric"
  /\ RicBranch(in_jsdoc, in_multiline_comment, original_line) = b
  /\ \E r \in {RicLine(in_jsdoc, in_multiline_comment, tail_nonblank, original_line)} :
     /\ branch' = r.branch
     /\ in_jsdoc' = r.in_jsdoc
     /\ in_multiline_comment' = r.in_multiline_comment
     /\ line' = r.line
     /\ appended' = r.appended
     /\ tail_nonblank' = IF r.appended = <<>> THEN tail_nonblank
                         ELSE Strip(r.appended[Len(r.appended)]) # <<>>
     /\ changes' = r.changes
     /\ comment_index' = r.comment_index
  /\ pc' = "processed"
  /\ UNCHANGED <<tool, original_line, removed, found>>
  /\ UNCHANGED fileVars
  /\ UNCHANGED analysisVars

\* find_inline_comments: the loop body, taking the branch b
FicProcess(b) ==
  /\ pc = "read" /\ tool = "fic"
  /\ FicBranch(in_jsdoc, in_multiline_comment, original_line) = b
  /\ \E r \in {FicLine(in_jsdoc, in_multiline_comment, original_line)} :
     /\ branch' = r.branch
     /\ in_jsdoc' = r.in_jsdoc
     /\ in_multiline_comment' = r.in_multiline_comment
     /\ found' = r.found
     /\ comment_index' = r.comment_index
  /\ pc' = "processed"
  /\ UNCHANGED <<tool, original_line, line, tail_nonblank, appended, removed,
                 changes>>
  /\ UNCHANGED fileVars
  /\ UNCHANGED analysisVars

\* clean_file_comments: the loop body, taking the branch b
CfcProcess(b) ==
  /\ pc = "read" /\ tool = "cfc"
  /\ CfcBranch(in_jsdoc, in_multiline_comment, original_line) = b
  /\ \E r \in {CfcLine(in_jsdoc, in_multiline_comment, original_line)} :
     /\ branch' = r.branch
     /\ in_jsdoc' = r.in_jsdoc
     /\ in_multiline_comment' = r.in_multiline_comment
     /\ appended' = IF r.kept THEN <<original_line>> ELSE <<>>
     /\ removed' = IF r.kept THEN <<>> ELSE <<RStrip(original_line)>>
  /\ pc' = "processed"
  /\ UNCHANGED <<tool, original_line, line, tail_nonblank, found, changes,
                 comment_index>>
  /\ UNCHANGED fileVars
  /\ UNCHANGED analysisVars

\* the end of one iteration: the locals of the body die
Advance ==
  /\ pc = "processed"
  /\ pc' = "idle"
  /\ original_line' = <<>> /\ line' = <<>> /\ branch' = None
  /\ appended' = <<>> /\ removed' = <<>> /\ found' = <<>> /\ changes' = 0
  /\ comment_index' = -1
  /\ UNCHANGED <<tool, in_jsdoc, in_multiline_comment, tail_nonblank>>
  /\ UNCHANGED fileVars
  /\ UNCHANGED analysisVars

Next ==
  \/ ReadLine
  \/ RicProcess("jsdoc_start")
  \/ RicProcess("jsdoc_end")
  \/ RicProcess("jsdoc_body")
  \/ RicProcess("multiline_open")
  \/ RicProcess("multiline_skip")
  \/ RicProcess("code")
  \/ FicProcess("jsdoc_start")
  \/ FicProcess("jsdoc_end")
  \/ FicProcess("jsdoc_skip")
  \/ FicProcess("multiline_open")
  \/ FicProcess("multiline_skip")
  \/ FicProcess("code")
  \/ CfcProcess("jsdoc_start")
  \/ CfcProcess("jsdoc_end")
  \/ CfcProcess("jsdoc_body")
  \/ CfcProcess("multiline_open")
  \/ CfcProcess("multiline_end")
  \/ CfcProcess("multiline_body")
  \/ CfcProcess("single")
  \/ Advance

Spec == Init /\ [][Next]_vars

\* ------------------------------------------------------------------------
\* Runs over whole files: a file of Texts is on disk and the tool is run on
\* it, again and again.
\* ------------------------------------------------------------------------
FileInit ==
  /\ tool \in {"ric"}
  /\ ScanInit
  /\ content \in Texts
  /\ previous = <<>>
  /\ returned = 0
  /\ runs = 0
  /\ AnalysisIdle

\* process_all_ts_files, line 141: one call of remove_inline_comments on the file
RunRic ==
  /\ tool = "ric" /\ runs < MaxRuns
  /\ \E r \in {remove_inline_comments(content)} :
       content' = r.content /\ returned' = r.returned
  /\ previous' = content
  /\ runs' = runs + 1
  /\ UNCHANGED scanVars
  /\ UNCHANGED analysisVars

\* scan_all_ts_files, line 118: one call of find_inline_comments on the file
RunFic ==
  /\ tool \in {"ric", "fic"} /\ runs < MaxRuns
  /\ returned' = find_inline_comments(content)
  /\ tool' = "fic"
  /\ previous' = content
  /\ runs' = runs + 1
  /\ UNCHANGED loopVars
  /\ UNCHANGED content
  /\ UNCHANGED analysisVars

\* a file on which the comments are removed and the remaining ones looked for
CommentInit ==
  /\ tool = "ric"
  /\ ScanInit
  /\ content \in Texts
  /\ previous = <<>>
  /\ returned = 0
  /\ runs = 0
  /\ original = content
  /\ inserted = <<>>
  /\ MethodIdle

CommentNext == RunRic \/ RunFic

CommentSpec == CommentInit /\ [][CommentNext]_vars

FileNext == RunRic

FileSpec == FileInit /\ [][FileNext]_vars

\* ------------------------------------------------------------------------
\* Runs of clean_file_comments over whole files
\* ------------------------------------------------------------------------
CleanInit ==
  /\ tool = "cfc"
  /\ ScanInit
  /\ content \in CleanTexts
  /\ previous = <<>>
  /\ returned = None
  /\ runs = 0
  /\ original = content
  /\ inserted = <<>>
  /\ MethodIdle

\* clean_all_comments, line 244: one call of clean_file_comments on the file
RunCfc ==
  /\ tool = "cfc" /\ runs < MaxRuns
  /\ \E r \in {clean_file_comments(content)} :
       content' = r.content /\ returned' = r.returned
  /\ previous' = content
  /\ runs' = runs + 1
  /\ UNCHANGED scanVars
  /\ UNCHANGED analysisVars

CleanNext == RunCfc

CleanSpec == CleanInit /\ [][CleanNext]_vars

\* ------------------------------------------------------------------------
\* Runs of the documentation tools over whole files: add_basic_jsdoc
\* (tool "abj") again and again, then find_missing_jsdoc (tool "fmj").
\* tool is the script that ran last, returned the value it returned.
\* ------------------------------------------------------------------------
DocInit ==
  /\ tool = None
  /\ ScanInit
  /\ content \in DocTexts
  /\ previous = <<>>
  /\ returned = None
  /\ runs = 0
  /\ original = content
  /\ inserted = <<>>
  /\ MethodIdle

\* process_all_files, line 213: one call of add_basic_jsdoc on the file
RunAbj ==
  /\ tool \in {None, "abj"} /\ runs < MaxRuns
  /\ \E r \in {add_basic_jsdoc(content)} :
       content' = r.content /\ returned' = r.returned /\ inserted' = r.inserted
  /\ tool' = "abj"
  /\ previous' = content
  /\ runs' = runs + 1
  /\ UNCHANGED loopVars
  /\ UNCHANGED original
  /\ UNCHANGED methodVars

\* analyze_all_ts_files, line 83: one call of find_missing_jsdoc on the file
RunFmj ==
  /\ runs < MaxRuns
  /\ returned' = find_missing_jsdoc(content)
  /\ tool' = "fmj"
  /\ previous' = content
  /\ runs' = runs + 1
  /\ UNCHANGED loopVars
  /\ UNCHANGED <<content, original, inserted>>
  /\ UNCHANGED methodVars

DocNext == RunAbj \/ RunFmj

DocSpec == DocInit /\ [][DocNext]_vars

\* ------------------------------------------------------------------------
\* analyze_method_length (tool "aml") over a file, one iteration of its loop
\* at a time.  idx is its index i; branch tells what the last iteration did.
\* returned is a list throughout: empty until the function returns.
\* ------------------------------------------------------------------------
MethodInit ==
  /\ tool = "aml"
  /\ ScanInit
  /\ content \in MethodTexts
  /\ previous = <<>>
  /\ returned = <<>>
  /\ runs = 0
  /\ original = content
  /\ inserted = <<>>
  /\ MethodIdle

\* what an iteration leaves as it is
AmlFrame ==
  UNCHANGED <<tool, original_line, line, in_jsdoc, in_multiline_comment, tail_nonblank,
              appended, removed, found, changes, comment_index, content, previous,
              runs, original, inserted>>

\* line 10-16: the file is read, long_methods = [], i = 0
AmlStart ==
  /\ tool = "aml" /\ pc = "idle"
  /\ pc' = "loop"
  /\ idx' = 0
  /\ long_methods' = <<>>
  /\ UNCHANGED <<branch, returned, method_info, calls>>
  /\ AmlFrame

\* line 22-33: an empty line, a comment or a non-method line
AmlSkip ==
  /\ tool = "aml" /\ pc = "loop"
  /\ \E lines \in {Split(content)} :
       /\ idx < Len(lines)
       /\ AmlSkipped(Strip(LineAt(lines, idx)))
  /\ idx' = idx + 1
  /\ branch' = "skip"
  /\ UNCHANGED <<pc, returned, method_info, long_methods, calls>>
  /\ AmlFrame

\* line 36-40: a declaration; analyze_method_from_line is called on it
AmlAnalyze ==
  /\ tool = "aml" /\ pc = "loop"
  /\ \E lines \in {Split(content)} :
       /\ idx < Len(lines)
       /\ \E stripped \in {Strip(LineAt(lines, idx))} :
            /\ ~AmlSkipped(stripped)
            /\ is_method_declaration(stripped, lines, idx)
       /\ \E info \in {analyze_method_from_line(lines, idx)} :
            /\ method_info' = info
            /\ long_methods' = IF info # NoMethod /\ info.code_lines > LongLimit
                               THEN Append(long_methods, info) ELSE long_methods
            /\ idx' = AmlNextIndex(info, idx)
            /\ calls' = Append(calls, [start_line |-> idx, method_info |-> info])
  /\ branch' = "analyze"
  /\ UNCHANGED <<pc, returned>>
  /\ AmlFrame

\* line 41-42: any other line
AmlOther ==
  /\ tool = "aml" /\ pc = "loop"
  /\ \E lines \in {Split(content)} :
       /\ idx < Len(lines)
       /\ \E stripped \in {Strip(LineAt(lines, idx))} :
            /\ ~AmlSkipped(stripped)
            /\ ~is_method_declaration(stripped, lines, idx)
  /\ idx' = idx + 1
  /\ branch' = "other"
  /\ UNCHANGED <<pc, returned, method_info, long_methods, calls>>
  /\ AmlFrame

\* line 17, 44: the loop has ended, long_methods is returned
AmlReturn ==
  /\ tool = "aml" /\ pc = "loop"
  /\ idx >= Len(Split(content))
  /\ pc' = "done"
  /\ returned' = long_methods
  /\ UNCHANGED <<branch, idx, method_info, long_methods, calls>>
  /\ AmlFrame

MethodNext == AmlStart \/ AmlSkip \/ AmlAnalyze \/ AmlOther \/ AmlReturn

\* the files of at most MaxLiveLines lines
MethodLiveTexts == {Join(ls) : ls \in SeqUpTo(MethodLines, MaxLiveLines)}

MethodLiveInit ==
  /\ tool = "aml"
  /\ ScanInit
  /\ content \in MethodLiveTexts
  /\ previous = <<>>
  /\ returned = <<>>
  /\ runs = 0
  /\ original = content
  /\ inserted = <<>>
  /\ MethodIdle

\* the function calls nothing that blocks: it starts, and in its loop of line
\* 17-42 the step that can be made is made.  In the loop one of AmlSkip,
\* AmlAnalyze, AmlOther and AmlReturn can always be made, so weak fairness of
\* the loop's steps is written with pc = "loop" for their being enabled.
MethodLiveSpec ==
  /\ MethodLiveInit /\ [][MethodNext]_vars
  /\ WF_vars(AmlStart)
  /\ ([]<>(pc # "loop") \/ []<><<MethodNext>>_vars)

MethodSpec == MethodInit /\ [][MethodNext]_vars

\* ------------------------------------------------------------------------
\* generate_jsdoc_comment (tool "gen") on one declaration line
\* ------------------------------------------------------------------------
\* method names
GenNames ==
  {<<"f">>,
   <<"f", "o", "o">>,
   <<"n", "g", "O", "n", "I", "n", "i", "t">>,
   <<"n", "g", "O", "n", "D", "e", "s", "t", "r", "o", "y">>,
   <<"n", "g", "O", "n", "C", "h", "a", "n", "g", "e", "s">>,
   <<"n", "g", "A", "f", "t", "e", "r", "V", "i", "e", "w", "I", "n", "i", "t">>,
   <<"n", "g", "O", "n", "I", "n", "i", "t", "X">>,
   <<"o", "n", "C", "l", "i", "c", "k">>,
   <<"o", "n">>,
   <<"o", "p", "e", "n">>,
   <<"g", "e", "t", "X">>,
   <<"s", "e", "t", "X">>,
   <<"i", "s", "O", "k">>,
   <<"h", "a", "s", "I", "t">>,
   <<"t", "o", "g", "g", "l", "e", "I", "t">>,
   <<"c", "r", "e", "a", "t", "e", "A">>,
   <<"u", "p", "d", "a", "t", "e", "B">>,
   <<"d", "e", "l", "e", "t", "e", "C">>,
   <<"r", "e", "m", "o", "v", "e", "D">>,
   <<"v", "a", "l", "i", "d", "a", "t", "e", "E">>,
   <<"h", "a", "n", "d", "l", "e", "F">>,
   <<"p", "r", "o", "c", "e", "s", "s", "G">>,
   <<"h", "a", "n", "d", "l", "e">>,
   <<"i", "s", "s", "u", "e">>,
   <<"g", "e", "t", "t", "e", "r", "_", "1">>}

\* argument texts
GenParams ==
  {<<>>,
   <<"a", ":", " ", "b">>,
   <<"a", ":", " ", "b", ",", " ", "c", ":", " ", "d">>,
   <<"c", ":", " ", "d", ",", " ", "a", ":", " ", "b">>,
   <<".", ".", ".", "r", ":", " ", "x">>,
   <<"a">>,
   <<"a", ":", " ", "b", ",", " ", ".", ".", ".", "r", ":", " ", "x", ",", " ", "c", ",", " ", "e", ":", " ", "g">>,
   <<" ", "a", " ", ":", " ", "b", " ">>,
   <<":", " ", "b">>,
   <<"a", ":", " ", "(", "b", ")", ":", " ", "c">>,
   <<"a", ":", " ", "b", ",", ",", " ", "c", ":", "d">>}

\* what follows the closing parenthesis
GenReturns ==
  {<<>>,
   <<":", " ", "v", "o", "i", "d">>,
   <<":", " ", "P", "r", "o", "m", "i", "s", "e", "<", "x", ">">>,
   <<":", " ", "b", "o", "o", "l", "e", "a", "n">>,
   <<":", " ", "s", "t", "r", "i", "n", "g">>,
   <<":", " ", "n", "u", "m", "b", "e", "r">>,
   <<":", " ", "c">>,
   <<":", " ", "P", "r", "o", "m", "i", "s", "e", "<", "b", "o", "o", "l", "e", "a", "n", ">">>,
   <<":", " ", "s", "t", "r", "i", "n", "g", " ", "|", " ", "n", "u", "m", "b", "e", "r">>,
   <<":", " ", "b", "o", "o", "l", "e", "a", "n", "[", "]", " ", "|", " ", "P", "r", "o", "m", "i", "s", "e", "<", "x", ">">>,
   <<":">>,
   <<":", " ", " ">>,
   <<" ", ":", " ", "c">>,
   <<":", "c">>}

\* a declaration line made of a name, an argument text, a return part and a tail
GenLine(name, params, return, tail) ==
  name \o <<"(">> \o params \o <<")">> \o return \o tail

\* the declaration lines given to generate_jsdoc_comment: every name with one
\* argument text and return part, and one name with every argument text and
\* return part, with the brace on the line and without it; and lines without
\* a name
GenLines ==
  {GenLine(n, <<"a", ":", " ", "b">>, <<":", " ", "c">>, <<" ", "{">>) : n \in GenNames}
    \cup {GenLine(<<"f">>, ps, r, t) :
            ps \in GenParams, r \in GenReturns, t \in {<<" ", "{">>, <<>>}}
    \cup {<<" ", " ">> \o GenLine(<<"g">>, ps, <<":", " ", "c">>, <<" ", "{">>) : ps \in GenParams}
    \cup {DeclNoName, <<"=", "(", "a", ":", " ", "b", ")", " ", "{">>}

GenInit ==
  /\ tool = "gen"
  /\ pc = "idle"
  /\ original_line = <<>>
  /\ line \in GenLines
  /\ branch = None
  /\ in_jsdoc = FALSE
  /\ in_multiline_comment = FALSE
  /\ tail_nonblank = FALSE
  /\ appended = <<>>
  /\ removed = <<>>
  /\ found = <<>>
  /\ changes = 0
  /\ comment_index = -1
  /\ content = <<>>
  /\ previous = <<>>
  /\ returned = None
  /\ runs = 0
  /\ AnalysisIdle

\* add_basic_jsdoc, line 42: jsdoc = generate_jsdoc_comment(stripped, line)
GenRun ==
  /\ tool = "gen" /\ pc = "idle"
  /\ returned' = generate_jsdoc_comment(Strip(line), line)
  /\ pc' = "done"
  /\ UNCHANGED <<tool, original_line, line, branch, in_jsdoc, in_multiline_comment,
                 tail_nonblank, appended, removed, found, changes, comment_index,
                 content, previous, runs>>
  /\ UNCHANGED analysisVars

GenNext == GenRun

GenSpec == GenInit /\ [][GenNext]_vars

\* ------------------------------------------------------------------------
\* add_spacing.py: add_spacing_after_methods
\* ------------------------------------------------------------------------
StrIf == <<"i", "f">>

StrFor == <<"f", "o", "r">>

StrWhile == <<"w", "h", "i", "l", "e">>

StrSwitch == <<"s", "w", "i", "t", "c", "h">>

\* line 25: empty lines and comments
AsmSkipped(stripped) ==
  \/ stripped = <<>>
  \/ StartsWith(stripped, LineMark)
  \/ StartsWith(stripped, <<"*">>)
  \/ StartsWith(stripped, BlockOpen)

\* line 29-32: method/function patterns
AsmPattern(stripped, lines, i) ==
  /\ Contains(stripped, <<"(">>) /\ Contains(stripped, <<")">>)
  /\ (Contains(stripped, <<"{">>) \/ NextIsBrace(lines, i))
  /\ ~StartsWith(stripped, StrIf) /\ ~StartsWith(stripped, StrFor)
  /\ ~StartsWith(stripped, StrWhile) /\ ~StartsWith(stripped, StrSwitch)

RECURSIVE AsmSkipEmpty(_, _)
\* line 46-50: next_line_idx after the loop over the empty lines
AsmSkipEmpty(lines, next_line_idx) ==
  IF next_line_idx < Len(lines) /\ Strip(LineAt(lines, next_line_idx)) = <<>>
  THEN AsmSkipEmpty(lines, next_line_idx + 1)
  ELSE next_line_idx

\* line 53-56: a blank line is added behind line i
AsmAddsBlank(lines, i) ==
  LET next_line_idx == AsmSkipEmpty(lines, i + 1) IN
  /\ next_line_idx < Len(lines)
  /\ Strip(LineAt(lines, next_line_idx)) # <<>>
  /\ ~StartsWith(Strip(LineAt(lines, next_line_idx)), <<"}">>)
  /\ next_line_idx = i + 1

\* line 20-57: one iteration on line i, from the loop's variables st; inserted
\* holds the i of every iteration that reached line 57
AsmStep(st, lines, i) ==
  LET this_line == LineAt(lines, i)
      stripped == Strip(this_line)
      detected == AsmPattern(stripped, lines, i)
      in_method == st.in_method \/ detected
      brace_count == IF in_method
                     THEN (IF detected THEN 0 ELSE st.brace_count)
                            + Count(this_line, "{") - Count(this_line, "}")
                     ELSE st.brace_count
      complete == in_method /\ brace_count = 0
      blank == complete /\ AsmAddsBlank(lines, i)
  IN IF AsmSkipped(stripped)
     THEN [st EXCEPT !.modified_lines = Append(@, this_line)]
     ELSE [modified_lines |-> Append(st.modified_lines, this_line)
                                \o (IF blank THEN << <<>> >> ELSE <<>>),
           brace_count |-> brace_count,
           in_method |-> in_method /\ ~complete,
           inserted |-> IF blank THEN Append(st.inserted, i) ELSE st.inserted]

RECURSIVE AsmLoop(_, _)
\* line 15-57: the loop's variables when i = k
AsmLoop(lines, k) ==
  IF k = 0 THEN [modified_lines |-> <<>>, brace_count |-> 0, in_method |-> FALSE,
                 inserted |-> <<>>]
  ELSE AsmStep(AsmLoop(lines, k - 1), lines, k - 1)

\* the whole function: the text of the file afterwards, the value returned, and
\* the lines behind which a blank line was added
add_spacing_after_methods(text) ==
  LET lines == Split(text)
      st == AsmLoop(lines, Len(lines))
      new_content == Join(st.modified_lines)
  IN [content |-> new_content, returned |-> new_content # text,
      inserted |-> st.inserted]

\* process_all_ts_files (tool "asm") over a file of methods
SpacingInit ==
  /\ tool = "asm"
  /\ ScanInit
  /\ content \in MethodTexts
  /\ previous = <<>>
  /\ returned = None
  /\ runs = 0
  /\ original = content
  /\ inserted = <<>>
  /\ MethodIdle

\* process_all_ts_files, line 88: one call of add_spacing_after_methods on the
\* file
RunAsm ==
  /\ tool = "asm" /\ runs < MaxRuns
  /\ \E r \in {add_spacing_after_methods(content)} :
       content' = r.content /\ returned' = r.returned /\ inserted' = r.inserted
  /\ previous' = content
  /\ runs' = runs + 1
  /\ UNCHANGED <<tool, original>>
  /\ UNCHANGED loopVars
  /\ UNCHANGED methodVars

SpacingNext == RunAsm

SpacingSpec == SpacingInit /\ [][SpacingNext]_vars

\* ------------------------------------------------------------------------
\* analyze_long_methods.py: count_method_lines, extract_methods_from_ts_file.
\* A pattern is a sequence of items: a literal text ("lit"), a repetition of a
\* character class with its least count, greedy or not ("rep"), an optional
\* group ("opt"), an alternation ("alt"), and the start and the end of
\* group 2 ("open", "close").  The flags MULTILINE and DOTALL change nothing:
\* the patterns hold no ^, $ or dot.
\* ------------------------------------------------------------------------
\* line 38: class methods (public/private/protected)
PatternClassMethod ==
  <<[kind |-> "opt", items |-> <<[kind |-> "alt", choices |-> <<<<[kind |-> "lit", text |-> <<"p", "u", "b", "l", "i", "c">>]>>, <<[kind |-> "lit", text |-> <<"p", "r", "i", "v", "a", "t", "e">>]>>, <<[kind |-> "lit", text |-> <<"p", "r", "o", "t", "e", "c", "t", "e", "d">>]>>>>]>>],
    [kind |-> "rep", class |-> "s", least |-> 0, greedy |-> TRUE],
    [kind |-> "opt", items |-> <<[kind |-> "lit", text |-> <<"s", "t", "a", "t", "i", "c">>], [kind |-> "rep", class |-> "s", least |-> 1, greedy |-> TRUE]>>],
    [kind |-> "opt", items |-> <<[kind |-> "lit", text |-> <<"a", "s", "y", "n", "c">>], [kind |-> "rep", class |-> "s", least |-> 1, greedy |-> TRUE]>>],
    [kind |-> "rep", class |-> "ws", least |-> 0, greedy |-> FALSE],
    [kind |-> "rep", class |-> "s", least |-> 1, greedy |-> TRUE],
    [kind |-> "open"],
    [kind |-> "rep", class |-> "w", least |-> 1, greedy |-> TRUE],
    [kind |-> "close"],
    [kind |-> "rep", class |-> "s", least |-> 0, greedy |-> TRUE],
    [kind |-> "lit", text |-> <<"(">>],
    [kind |-> "rep", class |-> "notclose", least |-> 0, greedy |-> TRUE],
    [kind |-> "lit", text |-> <<")">>],
    [kind |-> "rep", class |-> "s", least |-> 0, greedy |-> TRUE],
    [kind |-> "lit", text |-> <<":">>],
    [kind |-> "rep", class |-> "s", least |-> 0, greedy |-> TRUE],
    [kind |-> "rep", class |-> "notopen", least |-> 0, greedy |-> TRUE],
    [kind |-> "rep", class |-> "s", least |-> 0, greedy |-> TRUE],
    [kind |-> "lit", text |-> <<"{">>]>>

\* line 40: arrow functions
PatternArrow ==
  <<[kind |-> "open"],
    [kind |-> "rep", class |-> "w", least |-> 1, greedy |-> TRUE],
    [kind |-> "close"],
    [kind |-> "rep", class |-> "s", least |-> 0, greedy |-> TRUE],
    [kind |-> "lit", text |-> <<"=">>],
    [kind |-> "rep", class |-> "s", least |-> 0, greedy |-> TRUE],
    [kind |-> "opt", items |-> <<[kind |-> "lit", text |-> <<"a", "s", "y", "n", "c">>], [kind |-> "rep", class |-> "s", least |-> 1, greedy |-> TRUE]>>],
    [kind |-> "lit", text |-> <<"(">>],
    [kind |-> "rep", class |-> "notclose", least |-> 0, greedy |-> TRUE],
    [kind |-> "lit", text |-> <<")">>],
    [kind |-> "rep", class |-> "s", least |-> 0, greedy |-> TRUE],
    [kind |-> "lit", text |-> <<"=", ">">>],
    [kind |-> "rep", class |-> "s", least |-> 0, greedy |-> TRUE],
    [kind |-> "lit", text |-> <<"{">>]>>

\* line 42: function declarations
PatternFunction ==
  <<[kind |-> "lit", text |-> <<"f", "u", "n", "c", "t", "i", "o", "n">>],
    [kind |-> "rep", class |-> "s", least |-> 1, greedy |-> TRUE],
    [kind |-> "open"],
    [kind |-> "rep", class |-> "w", least |-> 1, greedy |-> TRUE],
    [kind |-> "close"],
    [kind |-> "rep", class |-> "s", least |-> 0, greedy |-> TRUE],
    [kind |-> "lit", text |-> <<"(">>],
    [kind |-> "rep", class |-> "notclose", least |-> 0, greedy |-> TRUE],
    [kind |-> "lit", text |-> <<")">>],
    [kind |-> "rep", class |-> "s", least |-> 0, greedy |-> TRUE],
    [kind |-> "lit", text |-> <<"{">>]>>

\* line 44: ngOnInit, ngOnDestroy etc.
PatternVoid ==
  <<[kind |-> "open"],
    [kind |-> "rep", class |-> "w", least |-> 1, greedy |-> TRUE],
    [kind |-> "close"],
    [kind |-> "rep", class |-> "s", least |-> 0, greedy |-> TRUE],
    [kind |-> "lit", text |-> <<"(">>],
    [kind |-> "rep", class |-> "s", least |-> 0, greedy |-> TRUE],
    [kind |-> "lit", text |-> <<")">>],
    [kind |-> "rep", class |-> "s", least |-> 0, greedy |-> TRUE],
    [kind |-> "lit", text |-> <<":">>],
    [kind |-> "rep", class |-> "s", least |-> 0, greedy |-> TRUE],
    [kind |-> "lit", text |-> <<"v", "o", "i", "d">>],
    [kind |-> "rep", class |-> "s", least |-> 0, greedy |-> TRUE],
    [kind |-> "lit", text |-> <<"{">>]>>

\* line 36-45
patterns == <<PatternClassMethod, PatternArrow, PatternFunction, PatternVoid>>

\* the character c is in the class: \w, \s, [\w\s], [^)] or [^{]
InClass(c, class) ==
  CASE class = "w" -> IsWord(c)
    [] class = "s" -> IsSpace(c)
    [] class = "ws" -> IsWord(c) \/ IsSpace(c)
    [] class = "notclose" -> c # ")"
    [] class = "notopen" -> c # "{"

RECURSIVE ClassRun(_, _, _)
\* the number of characters of the class that follow one another from pos on
ClassRun(text, class, pos) ==
  IF pos < Len(text) /\ InClass(At(text, pos), class)
  THEN 1 + ClassRun(text, class, pos + 1)
  ELSE 0

\* no match
ReFail == [ok |-> FALSE, end |-> -1, group |-> <<-1, -1>>]

RECURSIVE ReMatch(_, _, _, _)
RECURSIVE ReAlt(_, _, _, _, _, _)
RECURSIVE ReRep(_, _, _, _, _, _, _, _)
\* re: the first match of the items at pos in the order in which the
\* backtracking search tries them; group holds the bounds of group 2
ReMatch(text, items, pos, group) ==
  IF items = <<>> THEN [ok |-> TRUE, end |-> pos, group |-> group]
  ELSE LET it == Head(items)
           rest == Tail(items)
       IN CASE it.kind = "lit" ->
                 IF MatchAt(text, it.text, pos)
                 THEN ReMatch(text, rest, pos + Len(it.text), group)
                 ELSE ReFail
            [] it.kind = "open" -> ReMatch(text, rest, pos, <<pos, group[2]>>)
            [] it.kind = "close" -> ReMatch(text, rest, pos, <<group[1], pos>>)
            [] it.kind = "opt" ->
                 LET r == ReMatch(text, it.items \o rest, pos, group)
                 IN IF r.ok THEN r ELSE ReMatch(text, rest, pos, group)
            [] it.kind = "alt" -> ReAlt(text, it.choices, 1, rest, pos, group)
            [] it.kind = "rep" ->
                 LET most == ClassRun(text, it.class, pos)
                 IN IF most < it.least THEN ReFail
                    ELSE ReRep(text, rest, pos, group,
                               IF it.greedy THEN most ELSE it.least,
                               it.least, most, it.greedy)

\* the choices of an alternation from the k-th on, in their order
ReAlt(text, choices, k, rest, pos, group) ==
  IF k > Len(choices) THEN ReFail
  ELSE LET r == ReMatch(text, choices[k] \o rest, pos, group)
       IN IF r.ok THEN r ELSE ReAlt(text, choices, k + 1, rest, pos, group)

\* a repetition taken n times, then fewer (greedy) or more (not greedy)
ReRep(text, rest, pos, group, n, least, most, greedy) ==
  IF n < least \/ n > most THEN ReFail
  ELSE LET r == ReMatch(text, rest, pos + n, group)
       IN IF r.ok THEN r
          ELSE ReRep(text, rest, pos, group, IF greedy THEN n - 1 ELSE n + 1,
                     least, most, greedy)

RECURSIVE ReFindIter(_, _, _)
\* line 48: re.finditer from the position from on: the matches from left to
\* right, each searched behind the end of the one before
ReFindIter(text, items, from) ==
  LET starts == {p \in from..Len(text) : ReMatch(text, items, p, <<-1, -1>>).ok}
  IN IF starts = {} THEN <<>>
     ELSE LET p == CHOOSE p \in starts : \A m \in starts : p <= m
              r == ReMatch(text, items, p, <<-1, -1>>)
          IN <<[start |-> p, end |-> r.end, group |-> r.group]>>
               \o ReFindIter(text, items, IF r.end > p THEN r.end ELSE p + 1)

\* line 11-22: the lines of the method that are neither blank nor comments
count_method_lines(method_content) ==
  LET lines == Split(method_content)
  IN Cardinality({k \in 1..Len(lines) :
                    /\ Strip(lines[k]) # <<>>
                    /\ ~StartsWith(Strip(lines[k]), LineMark)
                    /\ ~StartsWith(Strip(lines[k]), BlockOpen)
                    /\ ~StartsWith(Strip(lines[k]), <<"*">>)})

RECURSIVE EmfMethodEnd(_, _, _, _, _)
\* line 55-67: method_end, found by bracket matching from i on
EmfMethodEnd(text, method_start, i, bracket_count, in_method) ==
  IF i >= Len(text) THEN method_start
  ELSE IF At(text, i) = "{"
       THEN EmfMethodEnd(text, method_start, i + 1, bracket_count + 1, TRUE)
  ELSE IF At(text, i) = "}"
       THEN IF bracket_count - 1 = 0 /\ in_method THEN i + 1
            ELSE EmfMethodEnd(text, method_start, i + 1, bracket_count - 1, in_method)
  ELSE EmfMethodEnd(text, method_start, i + 1, bracket_count, in_method)

\* line 80: the length from which the content is cut
PreviewLimit == 200

\* line 51-81: the records appended for one match (one or none)
EmfRecord(text, match) ==
  LET method_start == match.start
      method_name == Slice(text, match.group[1], match.group[2])
      method_end == EmfMethodEnd(text, method_start, method_start, 0, FALSE)
      method_content == Slice(text, method_start, method_end)
  IN IF method_end > method_start
     THEN <<[name |-> method_name,
             line_count |-> count_method_lines(method_content),
             line_number |-> Count(Slice(text, 0, method_start), "\n") + 1,
             content |-> IF Len(method_content) > PreviewLimit
                         THEN Slice(method_content, 0, PreviewLimit) \o <<".", ".", ".">>
                         ELSE method_content]>>
     ELSE <<>>

RECURSIVE EmfMatches(_, _, _)
\* line 50-81: the records of the matches from the k-th on
EmfMatches(text, matches, k) ==
  IF k > Len(matches) THEN <<>>
  ELSE EmfRecord(text, matches[k]) \o EmfMatches(text, matches, k + 1)

RECURSIVE EmfPatterns(_, _, _)
\* line 47-81: the records of the patterns from the k-th on
EmfPatterns(text, pats, k) ==
  IF k > Len(pats) THEN <<>>
  ELSE EmfMatches(text, ReFindIter(text, pats[k], 0), 1)
         \o EmfPatterns(text, pats, k + 1)

\* the whole function: the list returned
extract_methods_from_ts_file(text) == EmfPatterns(text, patterns, 1)

\* line 96: the line count above which a method is reported
LongMethodLines == 14

\* line 96
IsLongMethod(m) == m.line_count > LongMethodLines

\* the lines of the files given to extract_methods_from_ts_file: a function
\* declaration, a method, an arrow function, a closing brace, a statement and
\* the empty line
ExtractLines ==
  {<<"f", "u", "n", "c", "t", "i", "o", "n", " ", "f", "(", ")", " ", "{">>,
   <<"g", "(", ")", ":", " ", "v", "o", "i", "d", " ", "{">>,
   <<"h", " ", "=", " ", "(", ")", " ", "=", ">", " ", "{">>,
   <<"}">>, BodyStatement, <<>>}

ExtractTexts == {Join(ls) : ls \in SeqUpTo(ExtractLines, MaxExtractLines)}

\* analyze_typescript_files (tool "emf") over one file
ExtractInit ==
  /\ tool = "emf"
  /\ ScanInit
  /\ content \in ExtractTexts
  /\ previous = <<>>
  /\ returned = None
  /\ runs = 0
  /\ original = content
  /\ inserted = <<>>
  /\ MethodIdle

\* analyze_typescript_files, line 95-96: one call of
\* extract_methods_from_ts_file on the file, and the long methods among its
\* records
RunEmf ==
  /\ tool = "emf" /\ runs < MaxRuns
  /\ \E methods \in {extract_methods_from_ts_file(content)} :
       /\ returned' = methods
       /\ long_methods' = SelectSeq(methods, IsLongMethod)
  /\ previous' = content
  /\ runs' = runs + 1
  /\ UNCHANGED <<tool, content, original, inserted, idx, method_info, calls>>
  /\ UNCHANGED loopVars

ExtractNext == RunEmf

ExtractSpec == ExtractInit /\ [][ExtractNext]_vars

\* ------------------------------------------------------------------------
\* The lexical classification the claims refer to (spec section 4.1): the mode
\* before each character of a line.  mode is "code", "str" (inside a string
\* opened by delim), "line", "block" or "doc"; skip counts the characters that
\* still belong to the marker just read.
\* ------------------------------------------------------------------------
LexCode == [mode |-> "code", delim |-> None, skip |-> 0]

RECURSIVE BackslashesBefore(_, _)
\* the number of consecutive backslashes that end just before index i
BackslashesBefore(s, i) ==
  IF i = 0 \/ At(s, i - 1) # "\\" THEN 0 ELSE 1 + BackslashesBefore(s, i - 1)

\* the character at i is preceded by an unescaped backslash
Escaped(s, i) == BackslashesBefore(s, i) % 2 = 1

LexChar(s, i, st) ==
  IF st.skip > 0 THEN [st EXCEPT !.skip = st.skip - 1]
  ELSE IF st.mode = "str"
    THEN IF At(s, i) = st.delim /\ ~Escaped(s, i) THEN LexCode ELSE st
  ELSE IF st.mode \in {"block", "doc"}
    THEN IF MatchAt(s, BlockClose, i) THEN [LexCode EXCEPT !.skip = 1] ELSE st
  ELSE IF st.mode = "line" THEN st
  ELSE IF IsQuote(At(s, i)) THEN [mode |-> "str", delim |-> At(s, i), skip |-> 0]
  ELSE IF MatchAt(s, DocOpen, i) THEN [mode |-> "doc", delim |-> None, skip |-> 2]
  ELSE IF MatchAt(s, BlockOpen, i) THEN [mode |-> "block", delim |-> None, skip |-> 1]
  ELSE IF MatchAt(s, LineMark, i) THEN [mode |-> "line", delim |-> None, skip |-> 0]
  ELSE st

RECURSIVE LexState(_, _, _)
\* the mode before the character at k, when the line starts in the mode st0
LexState(s, k, st0) == IF k = 0 THEN st0 ELSE LexChar(s, k - 1, LexState(s, k - 1, st0))

\* the mode in which the next line starts
LexEnd(s, st0) ==
  LET st == LexState(s, Len(s), st0)
  IN IF st.mode = "line" THEN LexCode ELSE [st EXCEPT !.skip = 0]

\* the indices of a line, started in code mode, where a comment of the kind m begins
Opens(s, m) == {i \in 0..(Len(s) - 1) :
                  LexState(s, i, LexCode).mode = "code"
                  /\ LexState(s, i, LexCode).skip = 0
                  /\ LexState(s, i + 1, LexCode).mode = m}

\* the first // of the line that is not inside a string literal, or -1
FirstLineComment(s) ==
  IF Opens(s, "line") = {} THEN -1 ELSE CHOOSE i \in Opens(s, "line") : TRUE

\* the loop body is about to run on a line read in code mode
ReadInCode == pc = "read" /\ ~in_jsdoc /\ ~in_multiline_comment

\* ------------------------------------------------------------------------
\* Claims
\* ------------------------------------------------------------------------

\* C1: on every line that remove_inline_comments / find_inline_comments scan
\* outside a comment, the line comment starts at the first // that is not
\* inside a string literal (and there is none when every // is inside one).
C1_CommentStartsAtFirstUnquotedSlashes ==
  (pc = "processed" /\ tool \in {"ric", "fic"} /\ branch = "code")
    => comment_index = FirstLineComment(original_line)

\* C2: a /* or */ inside a string literal is an ordinary character: a code line
\* whose only block markers are inside strings (and that holds no comment) is
\* kept whole by remove_inline_comments and does not start block-comment mode.
C2_BlockMarkerInStringIsCode ==
  [][(/\ ReadInCode /\ tool = "ric"
      /\ Contains(original_line, BlockOpen) \/ Contains(original_line, BlockClose)
      /\ \A m \in {"line", "block", "doc"} : Opens(original_line, m) = {}
      /\ LexEnd(original_line, LexCode) = LexCode)
     => (line' = original_line /\ appended' = <<original_line>>
         /\ ~in_multiline_comment')]_vars

\* C3: the doc-comment flag and the block-comment flag are never both set.
C3_FlagsExclusive == ~(in_jsdoc /\ in_multiline_comment)

\* C4: after a line on which a block or doc comment both opens and closes, no
\* comment flag is set.
C4_ClosedOnSameLineLeavesCodeMode ==
  [][(/\ ReadInCode
      /\ Opens(original_line, "block") \cup Opens(original_line, "doc") # {}
      /\ LexEnd(original_line, LexCode) = LexCode)
     => (~in_jsdoc' /\ ~in_multiline_comment')]_vars

\* C5: the marker with the smallest index decides the comment kind: when the
\* first marker outside strings is //, a later /* on the line does not start
\* block-comment mode (remove_inline_comments, find_inline_comments).
C5_EarliestMarkerWins ==
  [][(/\ ReadInCode /\ tool \in {"ric", "fic"}
      /\ Opens(original_line, "line") # {}
      /\ Opens(original_line, "block") \cup Opens(original_line, "doc") = {})
     => (~in_jsdoc' /\ ~in_multiline_comment')]_vars

\* C6: a line with the terminator */ read inside a block or doc comment clears
\* the comment flag, whatever else the line holds (lines that hold no comment
\* opener).
C6_TerminatorClearsFlag ==
  [][(/\ pc = "read"
      /\ in_jsdoc # in_multiline_comment
      /\ Contains(original_line, BlockClose)
      /\ ~Contains(original_line, BlockOpen))
     => (~in_jsdoc' /\ ~in_multiline_comment')]_vars

\* C7: in the character scan a quote closes the open string if and only if it
\* equals the delimiter that opened it and is not preceded by an unescaped
\* backslash.
C7_QuoteClosesIffUnescapedDelimiter ==
  (pc = "processed" /\ tool \in {"ric", "fic"} /\ branch = "code"
   /\ Contains(original_line, LineMark))
    => \A k \in 0..(Len(original_line) - 1) :
         LET st == ScanState(original_line, k) IN
         (st.comment_index < 0 /\ st.in_string /\ IsQuote(At(original_line, k)))
           => (~ScanState(original_line, k + 1).in_string
                 <=> (At(original_line, k) = st.quote_char /\ ~Escaped(original_line, k)))

\* a line comment was split off the line by the scan
SplitDone ==
  pc = "processed" /\ tool \in {"ric", "fic"} /\ branch = "code" /\ comment_index >= 0

\* the code part and the comment part of the split: code_before and content of
\* find_inline_comments' record; the prefix remove_inline_comments keeps and the
\* suffix it drops
CodePart == IF tool = "fic" THEN found[1].code_before ELSE line

CommentPart == IF tool = "fic" THEN found[1].content
               ELSE Slice(original_line, Len(line), Len(original_line))

\* every character of s is whitespace
Blank(s) == \A k \in 1..Len(s) : IsSpace(s[k])

\* s is: whitespace, a, whitespace, b, whitespace
Brackets(s, a, b) ==
  \E i \in 0..Len(s) : \E j \in i..Len(s) :
    /\ Blank(Slice(s, 0, i))
    /\ MatchAt(s, a, i)
    /\ i + Len(a) <= j
    /\ Blank(Slice(s, i + Len(a), j))
    /\ MatchAt(s, b, j)
    /\ Blank(Slice(s, j + Len(b), Len(s)))

RECURSIVE LexLine(_, _)
\* the lexical mode in which line k (from 1) of a file starts
LexLine(lines, k) ==
  IF k = 1 THEN LexCode ELSE LexEnd(lines[k - 1], LexLine(lines, k - 1))

\* started in the mode st0, the line is string content from end to end
AllString(s, st0) == \A i \in 0..Len(s) : LexState(s, i, st0).mode = "str"

\* C8: string mode persists across lines: a line that lies wholly inside a
\* string opened on an earlier line and holds // or /* is kept as it is by
\* remove_inline_comments, which stays in code mode.
C8_StringPersistsAcrossLines ==
  runs = 1 =>
    LET lines == Split(previous) IN
    \A k \in 2..Len(lines) :
      LET st == RicLoop(lines, k - 1)
          r == RicLine(st.in_jsdoc, st.in_multiline_comment,
                       TailNonblank(st.modified_lines), lines[k])
      IN (/\ ~st.in_jsdoc /\ ~st.in_multiline_comment
          /\ AllString(lines[k], LexLine(lines, k))
          /\ Contains(lines[k], LineMark) \/ Contains(lines[k], BlockOpen))
         => (/\ r.line = lines[k]
             /\ r.appended = <<lines[k]>>
             /\ ~r.in_jsdoc /\ ~r.in_multiline_comment)

\* C10: remove_inline_comments is idempotent: a second run over the output of
\* the first makes zero changes and leaves the text as it is.
C10_RicIdempotent == runs = 2 => (returned = 0 /\ content = previous)

\* C11: clean_file_comments is idempotent: run over its own output it removes
\* zero lines and keeps exactly the lines of that output.
C11_CfcIdempotent ==
  (tool = "cfc" /\ runs = 2) =>
    /\ returned.removed_lines = 0
    /\ returned.removed_content = <<>>
    /\ returned.cleaned_lines = returned.original_lines
    /\ content = previous

\* C11 witness: the first run removed lines from a file, kept a doc comment
\* and code, and the second run has been made over its output.
C11_Witness ==
  /\ tool = "cfc" /\ runs = 2
  /\ previous # original
  /\ Contains(previous, DocOpen)
  /\ Contains(previous, <<"x">>)
  /\ content = previous

\* C12: add_basic_jsdoc is idempotent: run on the output of a previous run it
\* inserts no block and leaves the text as it is.
C12_AbjIdempotent ==
  (tool = "abj" /\ runs = 2) =>
    (returned = 0 /\ inserted = <<>> /\ content = previous)

\* C12 witness: the first run inserted a block into a file that also held a
\* doc comment, and add_basic_jsdoc has run again over its output.
C12_Witness ==
  /\ tool = "abj" /\ runs = 2
  /\ previous # original
  /\ Contains(original, DocOpen)
  /\ returned = 0

\* the doc comment that line q opens ends with line p: line q starts with /**
\* and the first */ after that opener is the end of line p
DocBlockEnds(lines, q, p) ==
  /\ StartsWith(Strip(LineAt(lines, q)), DocOpen)
  /\ LET text == Join([k \in 1..(p - q + 1) |-> Strip(LineAt(lines, q + k - 1))])
         rest == Slice(text, Len(DocOpen), Len(text))
     IN Find(rest, BlockClose) >= 0 /\ Find(rest, BlockClose) = Len(rest) - Len(BlockClose)

\* the nearest non-blank text above line k is a doc comment block
DocumentedAbove(lines, k) ==
  LET p == PrevNonEmpty(lines, k)
  IN p >= 0 /\ \E q \in 0..p : DocBlockEnds(lines, q, p)

\* C13: a doc comment block (/** ... */, on one line or on several) that is the
\* nearest non-blank text above a line suppresses the documentation of that
\* line: add_basic_jsdoc inserts no block above it and find_missing_jsdoc does
\* not report it.
C13_DocBlockSuppresses ==
  runs = 1 =>
    LET lines == Split(previous) IN
    \A k \in 0..(Len(lines) - 1) :
      DocumentedAbove(lines, k) =>
        /\ tool = "abj" => \A n \in 1..Len(inserted) : inserted[n] # k
        /\ tool = "fmj" => \A n \in 1..Len(returned) : returned[n].line # k + 1

\* C14: the one-line input LineFoo is recognised as a declaration by every
\* declaration matcher (should_add_jsdoc, find_missing_jsdoc,
\* is_method_declaration) and yields one method span with code-line count 1,
\* name foo, parameters a, b in that order and return type boolean.
C14_OneLineDeclaration ==
  (runs = 1 /\ previous = LineFoo) =>
    LET lines == Split(previous)
        stripped == Strip(LineAt(lines, 0))
        info == analyze_method_from_line(lines, 0)
    IN /\ is_method_declaration(stripped, lines, 0)
       /\ info # NoMethod
       /\ info.code_lines = 1
       /\ info.method_name = <<"f", "o", "o">>
       /\ JsdocParams(stripped) = << <<"a">>, <<"b">> >>
       /\ JsdocReturnType(stripped) = StrBoolean
       /\ should_add_jsdoc(stripped, lines, 0)
       /\ FmjCandidate(lines, 0)
       /\ tool = "abj" => returned = 1 /\ inserted = <<0>>
       /\ tool = "fmj" => Len(returned) = 1

\* ------------------------------------------------------------------------
\* The brace depth the claims on method spans refer to
\* ------------------------------------------------------------------------
\* the last call of analyze_method_from_line has just returned
Analyzed == tool = "aml" /\ pc = "loop" /\ branch = "analyze" /\ calls # <<>>

\* the index (from 0) of the line that call started at
LastStart == calls[Len(calls)].start_line

\* the braces of line k (from 0) that are code: the indices of the line that
\* hold the character c outside every string literal and comment
CodeBraces(lines, k, c) ==
  {m \in 0..(Len(LineAt(lines, k)) - 1) :
     /\ At(LineAt(lines, k), m) = c
     /\ LexState(LineAt(lines, k), m, LexLine(lines, k + 1)).mode = "code"
     /\ LexState(LineAt(lines, k), m, LexLine(lines, k + 1)).skip = 0}

\* every brace of line k is code
NoHiddenBrace(lines, k) ==
  /\ Cardinality(CodeBraces(lines, k, "{")) = Count(LineAt(lines, k), "{")
  /\ Cardinality(CodeBraces(lines, k, "}")) = Count(LineAt(lines, k), "}")

\* the net brace change of line k, in code
NetBraces(lines, k) ==
  Cardinality(CodeBraces(lines, k, "{")) - Cardinality(CodeBraces(lines, k, "}"))

RECURSIVE DepthAfter(_, _, _)
\* the cumulative brace depth, counted from line s, at the end of line k
DepthAfter(lines, s, k) ==
  IF k < s THEN 0 ELSE DepthAfter(lines, s, k - 1) + NetBraces(lines, k)

\* the lines at or after s that hold an opening brace of code
OpenLines(lines, s) ==
  {k \in s..(Len(lines) - 1) : CodeBraces(lines, k, "{") # {}}

\* the line holding the body's opening brace (with OpenLines not empty)
OpenLine(lines, s) ==
  CHOOSE k \in OpenLines(lines, s) : \A m \in OpenLines(lines, s) : k <= m

\* the lines at or after the opening line where the depth is back to 0
BaselineLines(lines, s) ==
  {k \in OpenLine(lines, s)..(Len(lines) - 1) : DepthAfter(lines, s, k) = 0}

\* the first of them (with BaselineLines not empty)
BaselineLine(lines, s) ==
  CHOOSE k \in BaselineLines(lines, s) : \A m \in BaselineLines(lines, s) : k <= m

\* the declaration at line s has a correctly nested body: it opens, the depth
\* comes back to 0, is never below 0 before, and no brace up to there stands
\* inside a string literal or a comment
CorrectlyNested(lines, s) ==
  /\ OpenLines(lines, s) # {}
  /\ BaselineLines(lines, s) # {}
  /\ \A k \in s..BaselineLine(lines, s) :
       DepthAfter(lines, s, k) >= 0 /\ NoHiddenBrace(lines, k)

RECURSIVE CodeOnly(_, _, _)
\* the first n characters of line k without the braces that stand inside a
\* string literal or a comment
CodeOnly(lines, k, n) ==
  IF n = 0 THEN <<>>
  ELSE LET c == At(LineAt(lines, k), n - 1)
           rest == CodeOnly(lines, k, n - 1)
       IN IF c \in {"{", "}"} /\ (n - 1) \notin CodeBraces(lines, k, c)
          THEN rest ELSE Append(rest, c)

\* the file without those braces
WithoutHiddenBraces(lines) ==
  [k \in 1..Len(lines) |-> CodeOnly(lines, k - 1, Len(lines[k]))]

\* C16: a brace inside a string literal or a comment does not change the
\* depth: analyze_method_from_line reports the end line it reports for the
\* same file without those braces (and a span for the one exactly when it
\* reports a span for the other).
C16_HiddenBracesDoNotCount ==
  Analyzed =>
    LET ref == analyze_method_from_line(WithoutHiddenBraces(Split(content)), LastStart)
    IN /\ (method_info = NoMethod) <=> (ref = NoMethod)
       /\ (method_info # NoMethod /\ ref # NoMethod)
            => method_info.end_line = ref.end_line

\* the cumulative brace depth, counted from line s, just after the character
\* at index m of line k
DepthAt(lines, s, k, m) ==
  DepthAfter(lines, s, k - 1)
    + Cardinality({n \in CodeBraces(lines, k, "{") : n <= m})
    - Cardinality({n \in CodeBraces(lines, k, "}") : n <= m})

\* the lines at or after s on which a closing brace brings the depth to 0
CloseLines(lines, s) ==
  {k \in s..(Len(lines) - 1) :
     \E m \in CodeBraces(lines, k, "}") : DepthAt(lines, s, k, m) = 0}

\* the first of them (with CloseLines not empty)
CloseLine(lines, s) ==
  CHOOSE k \in CloseLines(lines, s) : \A m \in CloseLines(lines, s) : k <= m

\* the body of the declaration at line s is closed on a line that opens
\* another block behind it (net brace change 0), and up to there no brace
\* stands inside a string literal or a comment
ClosedMidLine(lines, s) ==
  /\ CloseLines(lines, s) # {}
  /\ NetBraces(lines, CloseLine(lines, s)) = 0
  /\ CodeBraces(lines, CloseLine(lines, s), "{") # {}
  /\ \A k \in s..CloseLine(lines, s) : NoHiddenBrace(lines, k)

\* C17: a method body is closed where the cumulative depth first returns to
\* the baseline, even in the middle of a line: when the line that closes the
\* body opens another block behind it, analyze_method_from_line reports that
\* line as the end line.
C17_ClosedMidLine ==
  Analyzed =>
    LET lines == Split(content) IN
    ClosedMidLine(lines, LastStart) =>
      /\ method_info # NoMethod
      /\ method_info.end_line = CloseLine(lines, LastStart) + 1

\* C18: every record returned by analyze_method_from_line has
\* start_line <= end_line, code_lines <= total_lines and
\* total_lines = end_line - start_line + 1.
C18_SpanArithmetic ==
  \A n \in 1..Len(calls) :
    calls[n].method_info # NoMethod =>
      /\ calls[n].method_info.start_line = calls[n].start_line + 1
      /\ calls[n].method_info.start_line <= calls[n].method_info.end_line
      /\ calls[n].method_info.code_lines <= calls[n].method_info.total_lines
      /\ calls[n].method_info.total_lines
           = calls[n].method_info.end_line - calls[n].method_info.start_line + 1

\* C18 witness: a record was returned for a method of four lines, one of them
\* empty and one a closing brace, with fewer code lines than lines.
C18_Witness ==
  /\ Analyzed
  /\ content = Join(<<DeclLine, <<>>, BodyStatement, <<"}">> >>)
  /\ method_info # NoMethod
  /\ method_info.start_line = 1 /\ method_info.end_line = 4
  /\ method_info.total_lines = 4 /\ method_info.code_lines = 2

\* the depth of the declaration at line s never returns to the baseline before
\* the end of the file: from the line of the opening brace on (if there is
\* one) it is above 0 after every closing brace and at the end of every line;
\* no brace from s on stands inside a string literal or a comment
NeverCloses(lines, s) ==
  /\ \A k \in s..(Len(lines) - 1) : NoHiddenBrace(lines, k)
  /\ OpenLines(lines, s) # {} =>
       \A k \in OpenLine(lines, s)..(Len(lines) - 1) :
         /\ DepthAfter(lines, s, k) > 0
         /\ \A m \in CodeBraces(lines, k, "}") : DepthAt(lines, s, k, m) > 0

\* line k (from 0) is read by the loop of analyze_method_length as a declaration
DeclarationAt(lines, k) ==
  /\ ~AmlSkipped(Strip(LineAt(lines, k)))
  /\ is_method_declaration(Strip(LineAt(lines, k)), lines, k)

\* line k lies in the span reported for a call that started above it
InEarlierSpan(k) ==
  \E m \in 1..Len(calls) :
    /\ calls[m].method_info # NoMethod
    /\ calls[m].start_line < k
    /\ k < calls[m].method_info.end_line

DenyRule(stripped) ==
  \/ StartsWith(stripped, StrCatch)
  \/ StartsWith(stripped, StrBraceCatch)
  \/ StartsWith(stripped, StrConstructor)
  \/ StartsWith(stripped, StrGet)
  \/ StartsWith(stripped, StrSet)
  \/ StartsWith(stripped, StrExport)
  \/ Contains(SplitFirst(stripped, <<"(">>), <<"=">>)
  \/ StartsWith(stripped, StrInterface)
  \/ StartsWith(stripped, StrEnum)
  \/ StartsWith(stripped, StrClass)

\* C20: deny rules take precedence over allow rules in both documentation
\* tools: for a line under a deny rule add_basic_jsdoc inserts no block and
\* find_missing_jsdoc reports nothing, whatever else the line holds.
C20_DenyBeforeAllow ==
  runs = 1 =>
    LET lines == Split(previous) IN
    \A k \in 0..(Len(lines) - 1) :
      DenyRule(Strip(LineAt(lines, k))) =>
        /\ tool = "abj" => \A n \in 1..Len(inserted) : inserted[n] # k
        /\ tool = "fmj" => \A n \in 1..Len(returned) : returned[n].line # k + 1

\* a comment line or an empty line
CommentOrBlank(stripped) ==
  \/ stripped = <<>>
  \/ StartsWith(stripped, LineMark)
  \/ StartsWith(stripped, <<"*">>)
  \/ StartsWith(stripped, BlockOpen)

\* no deny rule of any of the three matchers applies to the line
NonDenied(stripped) ==
  /\ ~CommentOrBlank(stripped)
  /\ ~DenyRule(stripped)
  /\ ~StartsWith(stripped, <<"@">>)
  /\ ~StartsWith(stripped, StrImport)

RECURSIVE NextNonComment(_, _)
\* the index of the first line after line k that is no comment line, or -1
NextNonComment(lines, k) ==
  IF k + 1 >= Len(lines) THEN -1
  ELSE IF StartsWith(Strip(LineAt(lines, k + 1)), LineMark)
          \/ StartsWith(Strip(LineAt(lines, k + 1)), <<"*">>)
          \/ StartsWith(Strip(LineAt(lines, k + 1)), BlockOpen)
       THEN NextNonComment(lines, k + 1)
  ELSE k + 1

\* line k has the shape of a declaration in one of the two brace styles
DeclarationShape(lines, k) ==
  LET stripped == Strip(LineAt(lines, k)) IN
  /\ NonDenied(stripped)
  /\ Contains(stripped, <<"(">>) /\ Contains(stripped, <<")">>)
  /\ Contains(stripped, <<":">>)
  /\ \/ Contains(stripped, <<"{">>)
     \/ /\ NextNonComment(lines, k) >= 0
        /\ Strip(LineAt(lines, NextNonComment(lines, k))) = <<"{">>

\* C21: a non-denied line with (, ) and : is recognised as a declaration by
\* should_add_jsdoc, find_missing_jsdoc and is_method_declaration in both
\* brace styles: the opening brace anywhere on the same line, or alone on the
\* next line that is no comment.
C21_BothBraceStyles ==
  runs = 1 =>
    LET lines == Split(previous) IN
    \A k \in 0..(Len(lines) - 1) :
      DeclarationShape(lines, k) =>
        /\ should_add_jsdoc(Strip(LineAt(lines, k)), lines, k)
        /\ FmjCandidate(lines, k)
        /\ is_method_declaration(Strip(LineAt(lines, k)), lines, k)

\* generate_jsdoc_comment has returned a doc block for the line
Generated == tool = "gen" /\ pc = "done" /\ returned # Nothing

\* the parenthesised argument text of a line: what stands between the first
\* ( and the first ) behind it, or None
ArgumentText(s) ==
  LET open == Find(s, <<"(">>)
      rest == Slice(s, open + 1, Len(s))
  IN IF open < 0 \/ Find(rest, <<")">>) < 0 THEN Nothing
     ELSE Slice(rest, 0, Find(rest, <<")">>))

\* a segment of the argument text has a colon
HasColon(segment) == Contains(segment, <<":">>)

\* the text before the first colon of a segment is a name, and not a rest
\* parameter's
NamesParameter(segment) ==
  /\ Strip(SplitFirst(segment, <<":">>)) # <<>>
  /\ ~StartsWith(Strip(SplitFirst(segment, <<":">>)), <<".", ".", ".">>)

\* the extracted parameters of a line
ExtractedParameters(s) ==
  IF ArgumentText(s) = Nothing THEN <<>>
  ELSE LET kept == SelectSeq(SelectSeq(SplitOn(ArgumentText(s), <<",">>), HasColon),
                             NamesParameter)
       IN [k \in 1..Len(kept) |-> Strip(SplitFirst(kept[k], <<":">>))]

\* a line of a doc block is a parameter tag
IsParamTag(l) == StartsWith(l, DocParam)

ParenDepth(s, k) ==
  Cardinality({m \in 0..k : At(s, m) = "("}) - Cardinality({m \in 0..k : At(s, m) = ")"})

\* the indices of a line where a top-level "):" begins
TopLevelCloses(s) ==
  {k \in 0..(Len(s) - 2) :
     At(s, k) = ")" /\ At(s, k + 1) = ":" /\ ParenDepth(s, k) = 0}

\* the return-type token of the claim: the text behind the last top-level
\* "):" up to the opening brace, trimmed; void when there is none
ReturnTypeToken(s) ==
  IF TopLevelCloses(s) = {} THEN StrVoid
  ELSE LET k == CHOOSE k \in TopLevelCloses(s) : \A m \in TopLevelCloses(s) : m <= k
           rest == Slice(s, k + 2, Len(s))
           token == Strip(SplitFirst(rest, <<"{">>))
       IN IF token = <<>> THEN StrVoid ELSE token

\* C23: the return-type token extracted by generate_jsdoc_comment is the text
\* that follows the last top-level "):" of the line up to the opening brace,
\* trimmed, and the void sentinel when there is no such "):" or the text is
\* empty (an empty token and the sentinel are taken as the same).
C23_ReturnTypeAfterLastClose ==
  (tool = "gen" /\ pc = "done") =>
    LET return_type == JsdocReturnType(Strip(line))
    IN (IF return_type = <<>> THEN StrVoid ELSE return_type)
         = ReturnTypeToken(Strip(line))

\* a line of a doc block is a return tag
IsReturnTag(l) == StartsWith(l, DocReturns)

\* the substrings tested on the return-type token, in their order, and the
\* line each one stands for
ReturnKeys == <<StrPromise, StrBoolean, StrString, StrNumber>>

ReturnWordings ==
  <<DocReturnsPromise, DocReturnsBoolean, DocReturnsString, DocReturnsNumber>>

\* the return line for a token: that of the first key found in it, else the
\* token itself
ReturnWording(token) ==
  IF \E k \in 1..Len(ReturnKeys) : Contains(token, ReturnKeys[k])
  THEN ReturnWordings[CHOOSE k \in 1..Len(ReturnKeys) :
                        /\ Contains(token, ReturnKeys[k])
                        /\ \A m \in 1..(k - 1) : ~Contains(token, ReturnKeys[m])]
  ELSE DocReturns \o token

\* C24: a generated doc block has exactly one @returns line when the
\* return-type token is not empty and not void, and none otherwise; the line
\* is that of the first of Promise, boolean, string, number found in the
\* token, and otherwise gives the token itself.
C24_OneReturnTag ==
  Generated =>
    LET tags == SelectSeq(returned, IsReturnTag)
        token == JsdocReturnType(Strip(line))
    IN IF token # <<>> /\ token # StrVoid
       THEN tags = <<ReturnWording(token)>>
       ELSE tags = <<>>

\* C24 witness: a block was generated for a line whose return type holds
\* both boolean and Promise, boolean first; its return line is Promise's.
C24_Witness ==
  /\ Generated
  /\ JsdocReturnType(Strip(line))
       = <<"b", "o", "o", "l", "e", "a", "n", "[", "]", " ", "|", " ",
           "P", "r", "o", "m", "i", "s", "e", "<", "x", ">">>
  /\ SelectSeq(returned, IsReturnTag) = <<DocReturnsPromise>>

\* the rules of generate_description behind the one for ng, in their order:
\* the prefix tested, the number of characters cut from the name, and the
\* texts put before and behind the rest of the name
DescriptionRules ==
  <<[prefix |-> <<"o", "n">>, cut |-> 2, head |-> DescHandles, tail |-> DescEvents],
    [prefix |-> <<"g", "e", "t">>, cut |-> 3, head |-> DescGets, tail |-> DescValue],
    [prefix |-> <<"s", "e", "t">>, cut |-> 3, head |-> DescSets, tail |-> DescValue],
    [prefix |-> <<"i", "s">>, cut |-> 2, head |-> DescChecksIf, tail |-> <<".">>],
    [prefix |-> <<"h", "a", "s">>, cut |-> 2, head |-> DescChecksIf, tail |-> <<".">>],
    [prefix |-> <<"t", "o", "g", "g", "l", "e">>, cut |-> 6, head |-> DescToggles, tail |-> DescState],
    [prefix |-> <<"c", "r", "e", "a", "t", "e">>, cut |-> 6, head |-> DescCreates, tail |-> <<".">>],
    [prefix |-> <<"u", "p", "d", "a", "t", "e">>, cut |-> 6, head |-> DescUpdates, tail |-> <<".">>],
    [prefix |-> <<"d", "e", "l", "e", "t", "e">>, cut |-> 6, head |-> DescDeletes, tail |-> <<".">>],
    [prefix |-> <<"r", "e", "m", "o", "v", "e">>, cut |-> 6, head |-> DescDeletes, tail |-> <<".">>],
    [prefix |-> <<"v", "a", "l", "i", "d", "a", "t", "e">>, cut |-> 8, head |-> DescValidates, tail |-> <<".">>],
    [prefix |-> <<"h", "a", "n", "d", "l", "e">>, cut |-> 6, head |-> DescHandles, tail |-> <<".">>],
    [prefix |-> <<"p", "r", "o", "c", "e", "s", "s">>, cut |-> 7, head |-> DescProcesses, tail |-> <<".">>]>>

\* the prefixes of all rules
RulePrefixes ==
  {<<"n", "g">>} \cup {DescriptionRules[k].prefix : k \in 1..Len(DescriptionRules)}

\* the rule prefixes that are prefixes of a name
MatchingPrefixes(name) == {p \in RulePrefixes : StartsWith(name, p)}

\* the longest of them (with MatchingPrefixes not empty)
LongestPrefix(name) ==
  CHOOSE p \in MatchingPrefixes(name) :
    \A r \in MatchingPrefixes(name) : Len(r) <= Len(p)

\* the description of the rule with the prefix p for a name
RuleDescription(p, name) ==
  IF p = <<"n", "g">>
  THEN IF name = StrNgOnInit THEN DescNgOnInit
       ELSE IF name = StrNgOnDestroy THEN DescNgOnDestroy
       ELSE IF name = StrNgOnChanges THEN DescNgOnChanges
       ELSE DescNgPrefix \o name \o <<".">>
  ELSE LET r == DescriptionRules[CHOOSE k \in 1..Len(DescriptionRules) :
                                   DescriptionRules[k].prefix = p]
       IN r.head \o LowerStr(Slice(name, r.cut, Len(name))) \o r.tail

\* C25: the description chosen by generate_description is that of the rule
\* whose prefix is the longest rule prefix the name starts with, and the
\* default one naming the whole name exactly when no rule prefix matches.
C25_LongestPrefixRule ==
  Generated =>
    LET name == NameSearch(Strip(line)) IN
    /\ returned[2] = DocStar \o generate_description(name)
    /\ generate_description(name)
         = IF MatchingPrefixes(name) = {}
           THEN DescHandles \o name \o DescFunctionality
           ELSE RuleDescription(LongestPrefix(name), name)
    /\ (generate_description(name) = DescHandles \o name \o DescFunctionality)
         <=> (MatchingPrefixes(name) = {})

\* C25 witness: a block was generated for the method handleF, whose name
\* starts with the prefix of the rule next to last; its description is that
\* rule's.
C25_Witness ==
  /\ Generated
  /\ NameSearch(Strip(line)) = <<"h", "a", "n", "d", "l", "e", "F">>
  /\ MatchingPrefixes(NameSearch(Strip(line))) = {<<"h", "a", "n", "d", "l", "e">>}
  /\ returned[2] = DocStar \o DescHandles \o <<"f", ".">>

\* line k of lines passes a tool's test for declarations, and no identifier
\* followed by "(" stands on it
Nameless(lines, k) ==
  LET stripped == Strip(LineAt(lines, k)) IN
  /\ NameSearch(stripped) = Nothing
  /\ \/ should_add_jsdoc(stripped, lines, k)
     \/ FmjCandidate(lines, k)
     \/ is_method_declaration(stripped, lines, k)

\* C28: a line of declaration shape from which no identifier followed by "("
\* can be extracted is skipped by every tool: add_basic_jsdoc inserts no block
\* above it, find_missing_jsdoc returns no record for it, and
\* analyze_method_from_line returns no method for it.
C28_NamelessIsSkipped ==
  runs = 1 =>
    LET lines == Split(previous) IN
    \A k \in 0..(Len(lines) - 1) :
      Nameless(lines, k) =>
        /\ (tool = "abj" => \A j \in 1..Len(inserted) : inserted[j] # k)
        /\ (tool = "fmj" => \A j \in 1..Len(returned) : returned[j].line # k + 1)
        /\ analyze_method_from_line(lines, k) = NoMethod

\* a step is an iteration of the loop of analyze_method_length
AmlIteration == pc = "loop" /\ pc' = "loop"

\* C29: every iteration of the loop of analyze_method_length makes the index
\* larger, by one or by setting it to the index of the line behind the end line
\* of the method found; the index never passes the number of lines by more
\* than the loop's condition allows, and the scan comes to its end.
C29_ScanTerminates ==
  /\ [][AmlIteration =>
          /\ idx' > idx
          /\ \/ idx' = idx + 1
             \/ /\ branch' = "analyze" /\ method_info' # NoMethod
                /\ idx' = method_info'.end_line
          /\ idx' <= Len(Split(content))]_vars
  /\ <>(pc = "done")

\* C29 witness: the scan has ended behind the last line, and one of its
\* iterations found a method and went on behind its end line, more than one
\* line further.
C29_Witness ==
  /\ tool = "aml" /\ pc = "done"
  /\ idx = Len(Split(content))
  /\ \E j \in 1..Len(calls) :
       /\ calls[j].method_info # NoMethod
       /\ calls[j].method_info.end_line > calls[j].start_line + 1

\* line k (from 1) of a file belongs to a doc comment: some position of it is
\* in doc mode
InDocComment(lines, k) ==
  \E i \in 0..Len(lines[k]) : LexState(lines[k], i, LexLine(lines, k)).mode = "doc"

RECURSIVE DocCommentLines(_, _)
\* the lines among the first k that belong to doc comments, in their order
DocCommentLines(lines, k) ==
  IF k = 0 THEN <<>>
  ELSE DocCommentLines(lines, k - 1)
         \o (IF InDocComment(lines, k) THEN <<lines[k]>> ELSE <<>>)

RECURSIVE IsSubsequence(_, _)
\* the elements of a stand in b, in the order of a
IsSubsequence(a, b) ==
  IF a = <<>> THEN TRUE
  ELSE IF b = <<>> THEN FALSE
  ELSE IF a[1] = b[1] THEN IsSubsequence(Tail(a), Tail(b))
  ELSE IsSubsequence(a, Tail(b))

\* every doc comment of the file has its terminator, and no quote stands in it
DocCommentsClosed(lines) ==
  /\ LexEnd(lines[Len(lines)], LexLine(lines, Len(lines))).mode = "code"
  /\ \A k \in 1..Len(lines) : \A i \in 0..(Len(lines[k]) - 1) : ~IsQuote(At(lines[k], i))

\* C27: comment stripping keeps documentation: in a file without strings
\* whose comments are all closed, every line that belongs to a doc comment,
\* wherever on its line the opener stands, is in the output of
\* remove_inline_comments as it was, and these lines are in their order.
C27_DocCommentsKept ==
  (tool = "ric" /\ runs = 1) =>
    LET lines == Split(previous) IN
    DocCommentsClosed(lines) =>
      IsSubsequence(DocCommentLines(lines, Len(lines)), Split(content))

RECURSIVE BracesFrom(_, _, _, _)
\* the number of characters c on the lines s..i that are neither blank nor
\* comment lines
BracesFrom(lines, s, i, c) ==
  IF i < s THEN 0
  ELSE BracesFrom(lines, s, i - 1, c)
         + (IF CommentOrBlank(Strip(LineAt(lines, i))) THEN 0
            ELSE Count(LineAt(lines, i), c))

\* a body that opened on a line from s on has ended on line i: an opening
\* brace was counted and the depth is back at 0
BodyEndedOn(lines, i) ==
  \E s \in 0..i :
    /\ BracesFrom(lines, s, i, "{") > 0
    /\ BracesFrom(lines, s, i, "{") = BracesFrom(lines, s, i, "}")

\* C30: add_spacing_after_methods adds a blank line only behind a line on
\* which a method's body has ended, its opening brace counted and its depth
\* back at 0; no blank line is added between a declaration line and the
\* opening brace that stands alone on the next line.
C30_BlankOnlyAfterBody ==
  (tool = "asm" /\ runs = 1) =>
    LET lines == Split(previous) IN
    \A j \in 1..Len(inserted) :
      /\ BodyEndedOn(lines, inserted[j])
      /\ ~NextIsBrace(lines, inserted[j])

\* C26: the records an analysis returns for a file stand in ascending line
\* order: along the list returned by extract_methods_from_ts_file the line
\* numbers never decrease.
C26_AscendingLines ==
  (tool = "emf" /\ runs >= 1) =>
    \A j \in 1..(Len(returned) - 1) :
      returned[j].line_number <= returned[j + 1].line_number

\* the leading whitespace of a line
LeadingSpace(s) == Slice(s, 0, ClassRun(s, "s", 0))

RECURSIVE BlockEnd(_, _, _)
\* the index in out (from 1) of the line that ends the doc block whose lines
\* stand from p on, each behind the whitespace lead; 0 when there is none
BlockEnd(out, p, lead) ==
  IF p > Len(out) \/ ~StartsWith(out[p], lead \o <<" ", "*">>) THEN 0
  ELSE IF out[p] = lead \o DocEnd THEN p
  ELSE BlockEnd(out, p + 1, lead)

RECURSIVE OnlyInserted(_, _, _, _, _)
\* out from p on is the lines of the file from k on (k from 0), with a doc
\* block, indented as the line below it, directly above every line in marked
\* and above no other
OnlyInserted(out, p, lines, k, marked) ==
  IF k = Len(lines) THEN p = Len(out) + 1
  ELSE IF k \in marked
       THEN LET lead == LeadingSpace(LineAt(lines, k))
                e == BlockEnd(out, p + 1, lead)
            IN /\ p <= Len(out) /\ out[p] = lead \o DocOpen
               /\ e > 0
               /\ OnlyInserted(out, e + 1, lines, k, marked \ {k})
  ELSE /\ p <= Len(out) /\ out[p] = LineAt(lines, k)
       /\ OnlyInserted(out, p + 1, lines, k + 1, marked)

\* C31: add_basic_jsdoc only inserts lines: its output is its input with a
\* doc block directly above every line it documents, indented with that
\* line's leading whitespace, and with nothing else added, removed, changed
\* or moved.
C31_OnlyInserts ==
  (tool = "abj" /\ runs = 1) =>
    /\ OnlyInserted(Split(content), 1, Split(previous), 0,
                    {inserted[j] : j \in 1..Len(inserted)})
    /\ returned = Len(inserted)

\* C31 witness: a block was inserted above an indented declaration, and its
\* first line stands in the output behind that declaration's whitespace.
C31_Witness ==
  /\ tool = "abj" /\ runs = 1
  /\ \E j \in 1..Len(inserted) :
       LET lead == LeadingSpace(LineAt(Split(previous), inserted[j])) IN
       /\ lead # <<>>
       /\ Split(content)[inserted[j] + 1] = lead \o DocOpen
  /\ Len(Split(content)) > Len(Split(previous))

\* the last run was find_missing_jsdoc on the text add_basic_jsdoc leaves of
\* the file
AnalysedAfterInsertion ==
  /\ tool = "fmj" /\ runs = 2
  /\ previous = add_basic_jsdoc(original).content

\* C32: the documentation tools agree: find_missing_jsdoc, run on the text
\* that add_basic_jsdoc has left of a file, reports no missing documentation.
C32_NothingLeftMissing ==
  AnalysedAfterInsertion => returned = <<>>

\* the last run was find_inline_comments on the text remove_inline_comments
\* leaves of the file
ScannedAfterRemoval ==
  /\ tool = "fic" /\ runs = 2
  /\ previous = remove_inline_comments(original).content

\* C33: the comment tools agree: find_inline_comments, run on the text that
\* one run of remove_inline_comments has left of a file, returns no record.
C33_NothingLeftToFind ==
  ScannedAfterRemoval => returned = <<>>

\* the rules whose prefix the name starts with
MatchedRules(name) ==
  {k \in 1..Len(DescriptionRules) : StartsWith(name, DescriptionRules[k].prefix)}

\* C34: when a name that does not start with ng matches a rule of
\* generate_description, the part of the name echoed in the description is
\* the name without the matched prefix, in lower case: as many leading
\* characters are dropped as the prefix is long.
C34_PrefixRemoved ==
  Generated =>
    LET name == NameSearch(Strip(line)) IN
    (~StartsWith(name, <<"n", "g">>) /\ MatchedRules(name) # {}) =>
      \E k \in MatchedRules(name) :
        LET r == DescriptionRules[k] IN
        returned[2] = DocStar \o r.head
                        \o LowerStr(Slice(name, Len(r.prefix), Len(name)))
                        \o r.tail

\* call n of analyze_method_from_line found a span
FoundSpan(n) == calls[n].method_info # NoMethod

\* C35: the spans found by analyze_method_length in one file never overlap.
\* After a span is found the scan goes on at the line after its end line;
\* each later span starts strictly after the end line of every span found
\* before it; a declaration inside the body of a found method is never
\* passed to analyze_method_from_line and is not among the long methods.
C35_SpansDisjoint ==
  tool = "aml" =>
    LET lines == Split(content) IN
    /\ (pc = "loop" /\ branch = "analyze" /\ method_info # NoMethod) =>
         idx = method_info.end_line
    /\ \A j \in 1..Len(calls) : \A m \in 1..Len(calls) :
         (j < m /\ FoundSpan(j) /\ FoundSpan(m)) =>
           calls[m].method_info.start_line > calls[j].method_info.end_line
    /\ \A k \in 0..(Len(lines) - 1) :
         (DeclarationAt(lines, k) /\ InEarlierSpan(k)) =>
           /\ \A m \in 1..Len(calls) : calls[m].start_line # k
           /\ \A n \in 1..Len(long_methods) : long_methods[n].start_line # k + 1

\* C35 witness: the scan has ended; it found a span whose body holds a line
\* that reads as a declaration, and the scan went over that line.
C35_Witness ==
  /\ tool = "aml" /\ pc = "done"
  /\ \E k \in 0..(Len(Split(content)) - 1) :
       /\ DeclarationAt(Split(content), k)
       /\ InEarlierSpan(k)
       /\ idx > k

\* the declaration at line s (from 0) has its opening brace at the end of
\* its line and no other brace on it
BraceOnLine(lines, s) ==
  /\ EndsWith(RStrip(LineAt(lines, s)), <<"{">>)
  /\ Count(LineAt(lines, s), "{") = 1
  /\ Count(LineAt(lines, s), "}") = 0

\* the same file with that brace alone on the following line
BraceBelow(lines, s) ==
  LET this_line == RStrip(LineAt(lines, s))
      declaration == RStrip(Slice(this_line, 0, Len(this_line) - 1))
  IN SubSeq(lines, 1, s) \o <<declaration, <<"{">> >> \o SubSeq(lines, s + 2, Len(lines))

\* C36: the code-line count of a method does not depend on the brace style.
\* When analyze_method_from_line has found a span for a declaration whose
\* opening brace ends the declaration line, it finds a span with the same
\* code_lines for the same declaration and body with the brace alone on the
\* following line.
C36_BraceStyleIndependent ==
  (Analyzed /\ method_info # NoMethod /\ BraceOnLine(Split(content), LastStart)) =>
    LET below == analyze_method_from_line(BraceBelow(Split(content), LastStart), LastStart)
    IN /\ below # NoMethod
       /\ below.code_lines = method_info.code_lines

====
